---- MODULE Spec2Model ----
(***************************************************************************)
(* Model of the token analyzer (deep_analyzer.py) and of the bot's entry   *)
(* paths (bot.py).                                                         *)
(*                                                                         *)
(* Python values are records carrying a "tag": None, a raised exception,   *)
(* a dict.  A percentage is the exact rational amount / total * 100, kept  *)
(* in lowest terms as [num, den], so that equal percentages are equal      *)
(* values and a threshold test "pct > k" is num > k * den.                 *)
(***************************************************************************)
EXTENDS Integers, Sequences, FiniteSets, TLC

VARIABLES
    pc,                 \* position of the request in the handler / analyze_token
    entry,              \* entry path of the request
    token_address,      \* the address of the request
    chain,              \* the chain analyze_token is called with
    basic_data,         \* analyze_token's local basic_data
    dex_pricing,        \* analyze_token's local dex_pricing
    holder_analysis,    \* analyze_token's local holder_analysis
    security_analysis,  \* analyze_token's local security_analysis
    result,             \* what the request produced
    calls,              \* the upstream calls issued for the request, in order
    listed,             \* the entries the provider listed for the holder step
    step_exc,           \* an exception left one of analyze_token's steps
    raised,             \* an exception left analyze_token
    dc_addr,            \* detect_chain: the argument
    dc_out,             \* detect_chain: the value returned
    sa_in,              \* security scoring: holder analysis and static checks
    sa_out,             \* security scoring: the SecurityAnalysis returned
    rl_score,           \* classify_risk_level: the argument
    rl_out,             \* classify_risk_level: the value returned
    db_holders,         \* detect_bundles: the argument
    db_out,             \* detect_bundles: the value returned
    hd_holders,         \* classify_holder_distribution: the argument
    hd_out,             \* classify_holder_distribution: the value returned
    db_path,            \* Database: self.db_path ("none" before construction)
    disk,               \* the database stored in the file at db_path
    adding,             \* add_to_watchlist: the callers between SELECT and INSERT
    returned,           \* Database: what the last call returned
    scan_in,            \* scan_token: its arguments and what its environment answers
    scan_pc,            \* scan_token: the position of the handler
    token_analysis,     \* scan_token's local token_analysis
    replies,            \* scan_token: the messages sent to the user, in order
    runs,               \* the analyze_token calls in progress on one analyzer
    session,            \* DeepTokenAnalyzer: self.session
    now                 \* the clock time.time() reads

vars == <<pc, entry, token_address, chain, basic_data, dex_pricing,
          holder_analysis, security_analysis, result, calls, listed,
          step_exc, raised,
          dc_addr, dc_out, sa_in, sa_out,
          rl_score, rl_out, db_holders, db_out, hd_holders, hd_out,
          db_path, disk, adding, returned,
          scan_in, scan_pc, token_analysis, replies,
          runs, session, now>>

\* the variables of the database
dbVars == <<db_path, disk, adding, returned>>

\* the variables of the scan_token handler
scanVars == <<scan_in, scan_pc, token_analysis, replies>>

\* the variables of concurrent analyze_token calls
runVars == <<runs, session>>

\* the variables outside the single request
sideVars == <<dbVars, scanVars, runVars, now>>

\* the variables of the heuristics applied on their own
heurVars == <<rl_score, rl_out, db_holders, db_out, hd_holders, hd_out>>

reqVars == <<pc, entry, token_address, chain, basic_data, dex_pricing,
             holder_analysis, security_analysis, result, calls, listed,
             step_exc, raised>>

-----------------------------------------------------------------------------
(* Bounds of the model *)

\* longest address string
MaxAddrLen == 46
\* most entries in an upstream holder list
MaxHolders == 2
\* largest raw balance of an upstream holder entry
MaxAmount == 1
\* most entries of the lists detect_bundles is applied to
MaxBundleHolders == 6
\* most entries of the lists classify_holder_distribution is applied to
MaxDistributionHolders == 6
\* classify_risk_level is applied to the scores from -MaxRiskScore to
\* MaxRiskScore
MaxRiskScore == 160
\* the clock time.time() reads runs from 0 to MaxClock
MaxClock == 1
\* percentages of the scoring inputs are multiples of 1/PctDen
PctDen == 2

-----------------------------------------------------------------------------
(* Python values *)

None == [tag |-> "None"]
\* an exception propagating out of an expression
Exc == [tag |-> "Exc"]
\* no value yet
Pending == [tag |-> "Pending"]

\* try: v  except Exception: h   (v is evaluated once)
Try(v, h) == CHOOSE r \in {IF x = Exc THEN h ELSE x : x \in {v}} : TRUE

\* bool(v) for None and for the non-empty dicts of the analyzer
Truthy(v) == v # None

Min(a, b) == IF a <= b THEN a ELSE b
Max(a, b) == IF a >= b THEN a ELSE b
Abs(a) == IF a >= 0 THEN a ELSE 0 - a

RECURSIVE GCD(_, _)
GCD(a, b) == IF b = 0 THEN a ELSE GCD(b, a % b)

\* n / d as a value, in lowest terms (d > 0)
Ratio(n, d) == LET g == GCD(n, d) IN [num |-> n \div g, den |-> d \div g]
\* the factor 100 left out
Pct_fraction(amount, total) == Ratio(amount, total)

\* amount / total * 100
Pct(amount, total) == Ratio(amount * 100, total)
\* the number 0 where a percentage is expected
ZeroPct == [num |-> 0, den |-> 1]
\* pct > k
PctGT(p, k) == p.num > k * p.den

-----------------------------------------------------------------------------
(* bot.py: detect_chain *)

Chars == {"0", "x", "A"}

\* An address string, as far as the code reads it: its first two characters
\* and its length.
Addresses ==
    {a \in [head : {<<>>} \cup {<<c>> : c \in Chars} \cup (Chars \X Chars),
            len : 0..MaxAddrLen] : Len(a.head) = Min(2, a.len)}

\* str.startswith('0x')
StartsWith0x(a) == Len(a.head) = 2 /\ a.head[1] = "0" /\ a.head[2] = "x"

detect_chain_any_prefix(a) ==
    IF a.len >= 32 /\ a.len <= 44 THEN "solana"
    ELSE IF StartsWith0x(a) /\ a.len = 42 THEN "ethereum"
    ELSE "unknown"

detect_chain(a) ==
    IF a.len >= 32 /\ a.len <= 44 /\ ~StartsWith0x(a) THEN "solana"
    ELSE IF StartsWith0x(a) /\ a.len = 42 THEN "ethereum"
    ELSE "unknown"

-----------------------------------------------------------------------------
(* deep_analyzer.py: holder lists *)

\* One entry of an upstream holder list.  ok = FALSE is an entry whose
\* amount cannot be read as a number (not a dict, or a non-numeric amount);
\* a missing amount reads as 0.
Entries == {[ok |-> FALSE, amount |-> 0]} \cup
           {[ok |-> TRUE, amount |-> a] : a \in 0..MaxAmount}

RECURSIVE SeqsUpTo(_, _)
SeqsUpTo(S, n) ==
    IF n = 0 THEN {<<>>}
    ELSE LET shorter == SeqsUpTo(S, n - 1)
         IN  shorter \cup {Append(q, x) : q \in {r \in shorter : Len(r) = n - 1}, x \in S}

\* n entries of amount a
Run(a, n) == [k \in 1..n |-> [ok |-> TRUE, amount |-> a]]

\* Lists longer than the ten-entry slices: one large holder among small
\* ones of amounts 1 and 2; the provider lists the large holder first or
\* last, and the small ones in ascending order.
LargeAmounts == {8, 10}
SmallCounts == {<<10, 1>>, <<6, 4>>, <<7, 4>>}
LongLists ==
    UNION {{Run(w, 1) \o Run(1, c[1]) \o Run(2, c[2]),
            Run(1, c[1]) \o Run(2, c[2]) \o Run(w, 1)} :
           w \in LargeAmounts, c \in SmallCounts}

HolderLists == SeqsUpTo(Entries, MaxHolders) \cup LongLists

AllOk(holders) == \A i \in 1..Len(holders) : holders[i].ok

\* sum(float(h.get('amount', 0)) for h in holders), all entries numeric
RECURSIVE SumAmounts(_)
SumAmounts(holders) ==
    IF holders = <<>> THEN 0
    ELSE holders[1].amount + SumAmounts(Tail(holders))

\* holders[:n]
Prefix(holders, n) == SubSeq(holders, 1, Min(n, Len(holders)))

\* list.index(x): the first position holding a value equal to x
FirstIndex(holders, x) ==
    CHOOSE i \in 1..Len(holders) :
        holders[i] = x /\ \A k \in 1..(i - 1) : holders[k] # x

\* abs(amount - other_amount) / amount < 0.05, amount > 0
Similar(amount, other_amount) == 20 * Abs(amount - other_amount) < amount

\* The inner loop of detect_bundles over j, for the representative at i.
RECURSIVE BundleInner(_, _, _, _, _)
BundleInner(holders, amount, j, used_indices, bundle) ==
    IF j > Len(holders)
    THEN [exc |-> FALSE, used_indices |-> used_indices, bundle |-> bundle]
    ELSE IF j \in used_indices
    THEN BundleInner(holders, amount, j + 1, used_indices, bundle)
    ELSE IF ~holders[j].ok                       \* float() raises
    THEN [exc |-> TRUE, used_indices |-> used_indices, bundle |-> bundle]
    ELSE IF holders[j].amount > 0 /\ amount = 0  \* division by zero
    THEN [exc |-> TRUE, used_indices |-> used_indices, bundle |-> bundle]
    ELSE IF holders[j].amount > 0 /\ Similar(amount, holders[j].amount)
    THEN BundleInner(holders, amount, j + 1, used_indices \cup {j}, Append(bundle, j))
    ELSE BundleInner(holders, amount, j + 1, used_indices, bundle)

\* The outer loop of detect_bundles over i; a bundle is the sequence of the
\* positions of its members.
RECURSIVE BundleOuter(_, _, _, _)
BundleOuter(holders, i, used_indices, bundles) ==
    IF i > Len(holders)
    THEN [exc |-> FALSE, used_indices |-> used_indices, bundles |-> bundles]
    ELSE IF i \in used_indices
    THEN BundleOuter(holders, i + 1, used_indices, bundles)
    ELSE IF ~holders[i].ok                       \* float() raises
    THEN [exc |-> TRUE, used_indices |-> used_indices, bundles |-> bundles]
    ELSE LET r == BundleInner(holders, holders[i].amount, i + 1, used_indices, <<i>>)
         IN  IF r.exc
             THEN [exc |-> TRUE, used_indices |-> r.used_indices, bundles |-> bundles]
             ELSE IF Len(r.bundle) >= 3
             THEN BundleOuter(holders, i + 1,
                      r.used_indices \cup
                          {FirstIndex(holders, holders[r.bundle[k]]) : k \in 1..Len(r.bundle)},
                      Append(bundles, r.bundle))
             ELSE BundleOuter(holders, i + 1, r.used_indices, bundles)

\* only the representative of each bundle is counted
RECURSIVE BundleAmount_representatives(_, _)
BundleAmount_representatives(holders, bundles) ==
    IF bundles = <<>> THEN 0
    ELSE holders[bundles[1][1]].amount
         + BundleAmount_representatives(holders, Tail(bundles))

RECURSIVE BundleAmount(_, _)
BundleAmount(holders, bundles) ==
    IF bundles = <<>> THEN 0
    ELSE SumAmounts([k \in 1..Len(bundles[1]) |-> holders[bundles[1][k]]])
         + BundleAmount(holders, Tail(bundles))

NoBundle == [detected |-> FALSE, percentage |-> ZeroPct]

\* "< 3", the size of a bundle, where the code has "< 5"
detect_bundles_from_three(holders) ==
    IF Len(holders) < 3 THEN NoBundle
    ELSE LET r == BundleOuter(holders, 1, {}, <<>>)
         IN  IF r.exc THEN NoBundle
             ELSE IF r.bundles # <<>>
             THEN [detected |-> TRUE,
                   percentage |->
                       IF SumAmounts(holders) > 0
                       THEN Pct(BundleAmount(holders, r.bundles), SumAmounts(holders))
                       ELSE ZeroPct]
             ELSE NoBundle

detect_bundles(holders) ==
    IF Len(holders) < 5 THEN NoBundle
    ELSE LET r == BundleOuter(holders, 1, {}, <<>>)
         IN  IF r.exc THEN NoBundle              \* except: return False, 0
             ELSE IF r.bundles # <<>>
             THEN [detected |-> TRUE,
                   percentage |->
                       IF SumAmounts(holders) > 0
                       THEN Pct(BundleAmount(holders, r.bundles), SumAmounts(holders))
                       ELSE ZeroPct]
             ELSE NoBundle

\* ">=" where the code has ">"
classify_holder_distribution_inclusive(holders) ==
    IF holders = <<>> THEN "unknown"
    ELSE IF ~AllOk(holders) THEN "unknown"
    ELSE IF SumAmounts(holders) = 0 THEN "unknown"
    ELSE LET top_5_percentage == Pct(SumAmounts(Prefix(holders, 5)), SumAmounts(holders))
         IN  IF top_5_percentage.num >= 80 * top_5_percentage.den THEN "highly_concentrated"
             ELSE IF top_5_percentage.num >= 50 * top_5_percentage.den THEN "concentrated"
             ELSE IF top_5_percentage.num >= 20 * top_5_percentage.den THEN "moderate"
             ELSE "distributed"

classify_holder_distribution(holders) ==
    IF holders = <<>> THEN "unknown"
    ELSE IF ~AllOk(holders) THEN "unknown"       \* except: return 'unknown'
    ELSE IF SumAmounts(holders) = 0 THEN "unknown"
    ELSE LET top_5_percentage == Pct(SumAmounts(Prefix(holders, 5)), SumAmounts(holders))
         IN  IF PctGT(top_5_percentage, 80) THEN "highly_concentrated"
             ELSE IF PctGT(top_5_percentage, 50) THEN "concentrated"
             ELSE IF PctGT(top_5_percentage, 20) THEN "moderate"
             ELSE "distributed"

get_default_holder_analysis_none == None

get_default_holder_analysis ==
    [tag |-> "dict",
     total_holders |-> 0,
     top_10_percentage |-> ZeroPct,
     top_50_percentage |-> ZeroPct,
     dev_wallet_percentage |-> ZeroPct,
     dev_has_sold |-> FALSE,
     bundle_detected |-> FALSE,
     bundle_percentage |-> ZeroPct,
     holder_distribution |-> "unknown"]

process_holder_data(holders) ==
    LET body ==
        IF holders = <<>> THEN get_default_holder_analysis
        ELSE IF ~AllOk(holders) THEN Exc         \* float() raises in the first sum
        ELSE LET total_supply == SumAmounts(holders) IN
             IF total_supply = 0 THEN get_default_holder_analysis
             ELSE LET b == detect_bundles(holders) IN
                  [tag |-> "dict",
                   total_holders |-> Len(holders),
                   top_10_percentage |-> Pct(SumAmounts(Prefix(holders, 10)), total_supply),
                   top_50_percentage |-> Pct(SumAmounts(Prefix(holders, 50)), total_supply),
                   dev_wallet_percentage |-> Pct(holders[1].amount, total_supply),
                   dev_has_sold |-> FALSE,
                   bundle_detected |-> b.detected,
                   bundle_percentage |-> b.percentage,
                   holder_distribution |-> classify_holder_distribution(holders)]
    IN  Try(body, get_default_holder_analysis)

-----------------------------------------------------------------------------
(* deep_analyzer.py: the holder fetchers *)

\* What one call to a holder provider (Helius, Moralis) yields.
\*   exc       the HTTP call raises (timeout, connection error)
\*   non200    a status other than 200
\*   badjson   status 200, a body that is not the JSON object expected
\*   noresult  status 200, no (or an empty) "result"
\*   ok        status 200, "result" holding the list
HolderStatuses == {"exc", "non200", "badjson", "noresult", "ok"}

HolderResponses ==
    {[status |-> st, list |-> <<>>] : st \in HolderStatuses \ {"ok"}} \cup
    {[status |-> "ok", list |-> l] : l \in HolderLists}

\* The loop over token_accounts: the accounts with a positive amount, each
\* with its address (here its position in the response), in response order.
RECURSIVE PositiveAccounts(_, _)
PositiveAccounts(token_accounts, k) ==
    IF k > Len(token_accounts) THEN <<>>
    ELSE IF token_accounts[k].ok /\ token_accounts[k].amount > 0
    THEN <<[ok |-> TRUE, amount |-> token_accounts[k].amount, address |-> k]>>
         \o PositiveAccounts(token_accounts, k + 1)
    ELSE PositiveAccounts(token_accounts, k + 1)

\* x placed behind every entry of the descending list whose amount is >= its own
RECURSIVE InsertDesc(_, _)
InsertDesc(sorted, x) ==
    IF sorted = <<>> THEN <<x>>
    ELSE IF sorted[1].amount >= x.amount
    THEN <<sorted[1]>> \o InsertDesc(Tail(sorted), x)
    ELSE <<x>> \o sorted

\* the sort left out
SortDesc_none(holders) == holders

\* holders.sort(key=lambda x: x['amount'], reverse=True): stable
RECURSIVE SortDesc(_)
SortDesc(holders) ==
    IF holders = <<>> THEN <<>>
    ELSE InsertDesc(SortDesc(SubSeq(holders, 1, Len(holders) - 1)), holders[Len(holders)])

get_holder_distribution_from_helius(resp) ==
    LET body ==
        IF resp.status = "exc" THEN Exc
        ELSE IF resp.status = "non200" THEN None
        ELSE IF resp.status = "badjson" THEN Exc
        ELSE IF resp.status = "noresult" THEN None
        ELSE LET unsorted == PositiveAccounts(resp.list, 1)
                 total_supply == SumAmounts(unsorted)
                 holders == SortDesc(unsorted)
                 top_10_holders == Prefix(holders, 10)
                 top_10_percentage == Pct(SumAmounts(top_10_holders), total_supply)
             IN  IF holders # <<>>
                 THEN [tag |-> "dict",
                       total_holders |-> Len(holders),
                       total_supply |-> total_supply,
                       top_10_percentage |-> top_10_percentage,
                       top_50_percentage |-> Pct(SumAmounts(Prefix(holders, 50)), total_supply),
                       dev_wallet_percentage |-> Pct(holders[1].amount, total_supply),
                       dev_has_sold |-> FALSE,
                       bundle_detected |-> PctGT(top_10_percentage, 50),
                       bundle_percentage |->
                           IF PctGT(top_10_percentage, 50) THEN top_10_percentage ELSE ZeroPct,
                       holder_distribution |-> classify_holder_distribution(holders),
                       top_10_holders |->
                           [k \in 1..Len(top_10_holders) |->
                               [address |-> top_10_holders[k].address,
                                balance |-> top_10_holders[k].amount,
                                percentage |-> Pct(top_10_holders[k].amount, total_supply)]]]
                 ELSE None
    IN  Try(body, None)

get_solana_holders_from_helius_default(resp) ==
    LET holder_data == get_holder_distribution_from_helius(resp)
        body == IF holder_data = Exc THEN Exc
                ELSE IF Truthy(holder_data) /\ holder_data.total_holders > 0 THEN holder_data
                ELSE get_default_holder_analysis
    IN  Try(body, get_default_holder_analysis)

get_solana_holders_from_helius(resp) ==
    LET holder_data == get_holder_distribution_from_helius(resp)
        body == IF holder_data = Exc THEN Exc
                ELSE IF Truthy(holder_data) /\ holder_data.total_holders > 0 THEN holder_data
                ELSE None
    IN  Try(body, None)

get_ethereum_holders_from_moralis(resp) ==
    LET body ==
        IF resp.status = "exc" THEN Exc
        ELSE IF resp.status = "non200" THEN get_default_holder_analysis
        ELSE IF resp.status = "badjson" THEN Exc
        ELSE IF resp.list # <<>> THEN process_holder_data(resp.list)
        ELSE get_default_holder_analysis
    IN  Try(body, get_default_holder_analysis)

get_bsc_holders_from_moralis(resp) ==
    LET body ==
        IF resp.status = "exc" THEN Exc
        ELSE IF resp.status = "non200" THEN get_default_holder_analysis
        ELSE IF resp.status = "badjson" THEN Exc
        ELSE IF resp.list # <<>> THEN process_holder_data(resp.list)
        ELSE get_default_holder_analysis
    IN  Try(body, get_default_holder_analysis)

analyze_solana_holders(resp) ==
    Try(get_solana_holders_from_helius(resp), get_default_holder_analysis)

analyze_ethereum_holders(resp) ==
    Try(get_ethereum_holders_from_moralis(resp), get_default_holder_analysis)

analyze_bsc_holders(resp) ==
    Try(get_bsc_holders_from_moralis(resp), get_default_holder_analysis)

SupportedChains == {"solana", "ethereum", "bsc"}

\* The provider get_holder_analysis calls for a chain.
HolderSource(c) == IF c = "solana" THEN "helius" ELSE "moralis"

\* The dict get_holder_analysis ends with when no chain branch returned.
InlineDefaultHolderAnalysis ==
    [tag |-> "dict",
     total_holders |-> 0,
     top_10_percentage |-> ZeroPct,
     top_50_percentage |-> ZeroPct,
     dev_wallet_percentage |-> ZeroPct,
     dev_has_sold |-> FALSE,
     bundle_detected |-> FALSE,
     bundle_percentage |-> ZeroPct,
     holder_distribution |-> "unknown"]

\* resp is the provider's answer, read only when c is a supported chain.
get_holder_analysis(c, resp) ==
    LET body == IF c = "solana" THEN analyze_solana_holders(resp)
                ELSE IF c = "ethereum" THEN analyze_ethereum_holders(resp)
                ELSE IF c = "bsc" THEN analyze_bsc_holders(resp)
                ELSE InlineDefaultHolderAnalysis
    IN  Try(body, InlineDefaultHolderAnalysis)

-----------------------------------------------------------------------------
(* deep_analyzer.py: the market-data fetchers *)

\* a key the pair does not have
NoKey == "<absent>"

\* The first pair of a DexScreener answer, as far as the analyzer reads it.
\*   basic_ok    the fields get_basic_token_data passes to float() are numeric
\*   pricing_ok  the fields get_dex_pricing_info reads are well formed
Pairs == [dexId : {NoKey, "raydium"},
          pairCreatedAt : {"1700000000000"},
          liquidity_usd : {"2500.0"},
          basic_ok : BOOLEAN,
          pricing_ok : BOOLEAN]

\* What one call to DexScreener yields.
\*   exc       the HTTP call raises (timeout, connection error)
\*   non200    a status other than 200
\*   badjson   status 200, a body that is not the JSON object expected
\*   ok        status 200, "pairs" holding the list (possibly empty)
DexResponses ==
    {[status |-> st, pairs |-> <<>>] : st \in {"exc", "non200", "badjson", "ok"}} \cup
    {[status |-> "ok", pairs |-> <<p>>] : p \in Pairs}

\* pair.get(key, default)
Get(value, default) == IF value = NoKey THEN default ELSE value

get_basic_token_data_unguarded(addr, c, resp) ==
    IF resp.status = "exc" THEN Exc
    ELSE IF resp.status = "non200" THEN None
    ELSE IF resp.status = "badjson" THEN Exc
    ELSE IF resp.pairs # <<>>
    THEN LET pair == resp.pairs[1] IN
         IF ~pair.basic_ok THEN Exc
         ELSE [tag |-> "dict",
               chain |-> c,
               address |-> addr,
               liquidity |-> IF pair.liquidity_usd = "<absent>" THEN "0" ELSE pair.liquidity_usd,
               dex |-> IF pair.dexId = "<absent>" THEN "Unknown" ELSE pair.dexId,
               pair_created_at |-> IF pair.pairCreatedAt = "<absent>" THEN "0" ELSE pair.pairCreatedAt]
    ELSE None

\* The dict keeps chain, address and the fields of the pair that
\* get_dex_pricing_info extracts as well; name, symbol, price, market cap,
\* volume, price changes and fdv are copied from the pair the same way and
\* are read by nothing in the analyzer.
get_basic_token_data(addr, c, resp) ==
    LET body ==
        IF resp.status = "exc" THEN Exc
        ELSE IF resp.status = "non200" THEN None
        ELSE IF resp.status = "badjson" THEN Exc
        ELSE IF resp.pairs # <<>>
        THEN LET pair == resp.pairs[1] IN
             IF ~pair.basic_ok THEN Exc          \* float() raises
             ELSE [tag |-> "dict",
                   chain |-> c,
                   address |-> addr,
                   liquidity |-> Get(pair.liquidity_usd, "0"),
                   dex |-> Get(pair.dexId, "Unknown"),
                   pair_created_at |-> Get(pair.pairCreatedAt, "0")]
        ELSE None
    IN  Try(body, None)

\* Of the promotion dict, the fields that get_basic_token_data extracts as
\* well; the boost and link fields come from the same pair.
DefaultDexPricing ==
    [tag |-> "dict",
     dex_id |-> "unknown",
     pair_created_at |-> "0",
     liquidity_usd |-> "0"]

get_dex_pricing_info(resp) ==
    LET body ==
        IF resp.status = "exc" THEN Exc
        ELSE IF resp.status = "non200" THEN DefaultDexPricing
        ELSE IF resp.status = "badjson" THEN Exc
        ELSE IF resp.pairs # <<>>
        THEN LET pair == resp.pairs[1] IN
             IF ~pair.pricing_ok THEN Exc
             ELSE [tag |-> "dict",
                   dex_id |-> Get(pair.dexId, "unknown"),
                   pair_created_at |-> Get(pair.pairCreatedAt, "0"),
                   liquidity_usd |-> Get(pair.liquidity_usd, "0")]
        ELSE DefaultDexPricing
    IN  Try(body, DefaultDexPricing)

-----------------------------------------------------------------------------
(* deep_analyzer.py: the security scorer *)

check_contract_verification == FALSE
check_honeypot_indicators == FALSE
check_rug_pull_indicators == FALSE

\* ">" where the code has ">="
classify_risk_level_exclusive(security_score) ==
    IF security_score > 85 THEN "low"
    ELSE IF security_score > 70 THEN "medium"
    ELSE IF security_score > 50 THEN "high"
    ELSE "critical"

classify_risk_level(security_score) ==
    IF security_score >= 85 THEN "low"
    ELSE IF security_score >= 70 THEN "medium"
    ELSE IF security_score >= 50 THEN "high"
    ELSE "critical"

\* a holder analysis that is no dict: reading a field of it raises
Malformed == [tag |-> "Malformed"]

NoPenalty == [penalty |-> 0, warnings |-> <<>>]

\* the verification penalty left out
VerificationPenalty_skipped(is_verified) == [penalty |-> 0, warnings |-> <<>>]

VerificationPenalty(is_verified) ==
    IF ~is_verified
    THEN [penalty |-> 20, warnings |-> <<"Contract not verified">>]
    ELSE NoPenalty

\* "if" where the code has "elif"
DevPenalty_cumulative(dev_pct) ==
    [penalty |-> (IF PctGT(dev_pct, 50) THEN 60 ELSE 0)
                 + (IF PctGT(dev_pct, 30) THEN 40 ELSE 0)
                 + (IF PctGT(dev_pct, 20) THEN 25 ELSE 0),
     warnings |-> (IF PctGT(dev_pct, 50)
                   THEN <<"CRITICAL: Dev holds >50% - Extreme rug risk">> ELSE <<>>)
                  \o (IF PctGT(dev_pct, 30)
                      THEN <<"HIGH RISK: Dev holds >30% - High rug risk">> ELSE <<>>)
                  \o (IF PctGT(dev_pct, 20)
                      THEN <<"MEDIUM RISK: Dev holds >20% - Moderate rug risk">> ELSE <<>>)]

\* the penalties of the first and the third branch exchanged
DevPenalty_swapped(dev_pct) ==
    IF PctGT(dev_pct, 50)
    THEN [penalty |-> 25, warnings |-> <<"CRITICAL: Dev holds >50% - Extreme rug risk">>]
    ELSE IF PctGT(dev_pct, 30)
    THEN [penalty |-> 40, warnings |-> <<"HIGH RISK: Dev holds >30% - High rug risk">>]
    ELSE IF PctGT(dev_pct, 20)
    THEN [penalty |-> 60, warnings |-> <<"MEDIUM RISK: Dev holds >20% - Moderate rug risk">>]
    ELSE [penalty |-> 0, warnings |-> <<>>]

DevPenalty(dev_pct) ==
    IF PctGT(dev_pct, 50)
    THEN [penalty |-> 60, warnings |-> <<"CRITICAL: Dev holds >50% - Extreme rug risk">>]
    ELSE IF PctGT(dev_pct, 30)
    THEN [penalty |-> 40, warnings |-> <<"HIGH RISK: Dev holds >30% - High rug risk">>]
    ELSE IF PctGT(dev_pct, 20)
    THEN [penalty |-> 25, warnings |-> <<"MEDIUM RISK: Dev holds >20% - Moderate rug risk">>]
    ELSE NoPenalty

Top10Penalty(top_10_pct) ==
    IF PctGT(top_10_pct, 70)
    THEN [penalty |-> 50, warnings |-> <<"CRITICAL: Top 10 hold >70% - Extreme concentration">>]
    ELSE IF PctGT(top_10_pct, 50)
    THEN [penalty |-> 30, warnings |-> <<"HIGH RISK: Top 10 hold >50% - High concentration">>]
    ELSE IF PctGT(top_10_pct, 40)
    THEN [penalty |-> 15, warnings |-> <<"MEDIUM RISK: Top 10 hold >40% - Moderate concentration">>]
    ELSE NoPenalty

BundlePenalty(bundle_detected, bundle_pct) ==
    IF bundle_detected
    THEN IF PctGT(bundle_pct, 30)
         THEN [penalty |-> 40, warnings |-> <<"CRITICAL: Bundle manipulation detected">>]
         ELSE IF PctGT(bundle_pct, 15)
         THEN [penalty |-> 25, warnings |-> <<"HIGH RISK: Bundle manipulation detected">>]
         ELSE [penalty |-> 10, warnings |-> <<"Bundle manipulation detected">>]
    ELSE NoPenalty

HoneypotPenalty(is_honeypot) ==
    IF is_honeypot
    THEN [penalty |-> 50, warnings |-> <<"Potential honeypot detected">>]
    ELSE NoPenalty

RugPenalty(rug_indicators) ==
    IF rug_indicators
    THEN [penalty |-> 30, warnings |-> <<"Rug pull indicators detected">>]
    ELSE NoPenalty

\* The penalties of the holder block, in the order the code applies them.
HolderPenalties(ha) ==
    IF Truthy(ha)
    THEN <<DevPenalty(ha.dev_wallet_percentage),
           Top10Penalty(ha.top_10_percentage),
           BundlePenalty(ha.bundle_detected, ha.bundle_percentage)>>
    ELSE <<NoPenalty, NoPenalty, NoPenalty>>

RECURSIVE SumPenalties(_)
SumPenalties(ps) == IF ps = <<>> THEN 0 ELSE ps[1].penalty + SumPenalties(Tail(ps))

RECURSIVE AllWarnings(_)
AllWarnings(ps) == IF ps = <<>> THEN <<>> ELSE ps[1].warnings \o AllWarnings(Tail(ps))

ClampScore_unclamped(security_score) == security_score

\* max(0, security_score)
ClampScore(security_score) == Max(0, security_score)

\* The body of get_security_analysis after its holder fetch: ha is the holder
\* analysis fetched, the three booleans are what the static checks returned.
SecurityScoring(ha, is_verified, is_honeypot, rug_indicators) ==
    IF ha = Exc \/ ha = Malformed THEN Exc
    ELSE LET ps == <<VerificationPenalty(is_verified)>> \o HolderPenalties(ha)
                   \o <<HoneypotPenalty(is_honeypot), RugPenalty(rug_indicators)>>
             security_score == 100 - SumPenalties(ps)
         IN  [tag |-> "dict",
              security_score |-> ClampScore(security_score),
              is_verified |-> is_verified,
              is_honeypot |-> is_honeypot,
              rug_indicators |-> rug_indicators,
              warnings |-> AllWarnings(ps),
              risk_level |-> classify_risk_level(security_score)]

SecurityFallback ==
    [tag |-> "dict",
     security_score |-> 50,
     is_verified |-> FALSE,
     is_honeypot |-> FALSE,
     rug_indicators |-> FALSE,
     warnings |-> <<"Analysis failed">>,
     risk_level |-> "medium"]

\* ha is what the holder fetch inside get_security_analysis returned.
get_security_analysis(ha) ==
    Try(SecurityScoring(ha, check_contract_verification,
                        check_honeypot_indicators, check_rug_pull_indicators),
        SecurityFallback)

-----------------------------------------------------------------------------
(* database.py: the tables and the statements of each method *)

\* most rows of token_scans
MaxScans == 1

TableNames == {"users", "token_scans", "user_preferences", "watchlist"}

UserIds == {1}
WatchTokens == {"A", "B"}
WatchChains == {"solana"}

\* a database without tables: a file not written yet, or what
\* sqlite3.connect(':memory:') opens
EmptyDatabase ==
    [tables |-> {},
     users |-> {},
     user_preferences |-> [u \in {} |-> 0],
     watchlist |-> <<>>,
     token_scans |-> 0]

DbPaths == {"bot_data.db", ":memory:"}

\* sqlite3.connect(path): the database the connection works on.  Every
\* connection to ':memory:' opens a new, private, empty database.
Connect(path, stored) == IF path = ":memory:" THEN EmptyDatabase ELSE stored

\* conn.commit(); conn.close(): what is stored afterwards
Commit(path, stored, db) == IF path = ":memory:" THEN stored ELSE db

\* the outcome of a method: the value returned (Exc when a statement raised
\* sqlite3.OperationalError) and the database the connection leaves
Outcome(value, db) == [value |-> value, db |-> db]

\* Python values a method returns
Bool(b) == [tag |-> "bool", v |-> b]
List(items) == [tag |-> "list", items |-> items]

\* CREATE TABLE IF NOT EXISTS, four times
init_database(db) == Outcome(None, [db EXCEPT !.tables = @ \cup TableNames])

\* the row INSERT ... (user_id) VALUES (?) creates: the column defaults
DefaultPreferencesRow ==
    [default_chain |-> "solana", notifications_enabled |-> 1, risk_threshold |-> 50]

\* f with the row r at key u
WithRow(f, u, r) == [x \in DOMAIN f \cup {u} |-> IF x = u THEN r ELSE f[x]]

add_user(db, user_id) ==
    IF "users" \notin db.tables \/ "user_preferences" \notin db.tables
    THEN Outcome(Exc, db)
    ELSE Outcome(None,
             [db EXCEPT !.users = @ \cup {user_id},            \* INSERT OR REPLACE
                        !.user_preferences =                   \* INSERT OR IGNORE
                            IF user_id \in DOMAIN @ THEN @
                            ELSE WithRow(@, user_id, DefaultPreferencesRow)])

log_token_scan(db, user_id) ==
    IF "token_scans" \notin db.tables THEN Outcome(Exc, db)
    ELSE Outcome(None, [db EXCEPT !.token_scans = @ + 1])

WatchRow(user_id, token, c) ==
    [user_id |-> user_id, token_address |-> token, chain |-> c]

\* the positions of the rows of a watchlist equal to the row r
RowsEqual(watchlist, r) == {k \in 1..Len(watchlist) : watchlist[k] = r}

RECURSIVE Reverse(_)
Reverse(rows) ==
    IF rows = <<>> THEN <<>> ELSE Append(Reverse(Tail(rows)), rows[1])

\* add_to_watchlist up to its if: the SELECT and fetchone().  "found" is
\* whether a row came back.
add_to_watchlist_select(db, r) ==
    IF "watchlist" \notin db.tables THEN Outcome(Exc, db)
    ELSE Outcome(Bool(RowsEqual(db.watchlist, r) # {}), db)

\* add_to_watchlist after its if: the INSERT
add_to_watchlist_insert(db, r) ==
    Outcome(Bool(TRUE), [db EXCEPT !.watchlist = Append(@, r)])

remove_from_watchlist(db, r) ==
    IF "watchlist" \notin db.tables THEN Outcome(Exc, db)
    ELSE LET Other(x) == x # r
         IN  Outcome(Bool(RowsEqual(db.watchlist, r) # {}),     \* rowcount > 0
                     [db EXCEPT !.watchlist = SelectSeq(@, Other)])

\* ORDER BY added_at DESC: the rows of the user, the last added first
get_watchlist(db, user_id) ==
    IF "watchlist" \notin db.tables THEN Outcome(Exc, db)
    ELSE LET Mine(x) == x.user_id = user_id
             rows == Reverse(SelectSeq(db.watchlist, Mine))
         IN  Outcome(List([k \in 1..Len(rows) |->
                              [token_address |-> rows[k].token_address,
                               chain |-> rows[k].chain]]), db)

\* The keys of a preferences dict and the values given for them.
ChainValues == {"solana", "ethereum"}
ThresholdValues == {50, 70}

\* no entry under a key of a dict, and an entry
Absent == [tag |-> "absent"]
Present(x) == [tag |-> "value", v |-> x]

\* dict.get(key, default), held being what the dict holds under the key
DictGet(held, default) == IF held = Absent THEN default ELSE held.v

PreferenceDicts ==
    [default_chain : {Absent} \cup {Present(x) : x \in ChainValues},
     notifications_enabled : {Absent} \cup {Present(x) : x \in BOOLEAN},
     risk_threshold : {Absent} \cup {Present(x) : x \in ThresholdValues}]

\* a Python bool bound to a BOOLEAN column, and bool() of the column read
ToColumn(b) == IF b THEN 1 ELSE 0
FromColumn(n) == n # 0

\* UPDATE ... SET default_chain = ?, notifications_enabled = ?,
\* risk_threshold = ? WHERE user_id = ?
update_user_preferences(db, user_id, preferences) ==
    IF "user_preferences" \notin db.tables THEN Outcome(Exc, db)
    ELSE IF user_id \notin DOMAIN db.user_preferences THEN Outcome(None, db)
    ELSE Outcome(None,
             [db EXCEPT !.user_preferences[user_id] =
                 [default_chain |-> DictGet(preferences.default_chain, "solana"),
                  notifications_enabled |->
                      ToColumn(DictGet(preferences.notifications_enabled, TRUE)),
                  risk_threshold |-> DictGet(preferences.risk_threshold, 50)]])

get_user_preferences(db, user_id) ==
    IF "user_preferences" \notin db.tables THEN Outcome(Exc, db)
    ELSE IF user_id \in DOMAIN db.user_preferences
    THEN LET row == db.user_preferences[user_id] IN
         Outcome([tag |-> "dict",
                  default_chain |-> row.default_chain,
                  notifications_enabled |-> FromColumn(row.notifications_enabled),
                  risk_threshold |-> row.risk_threshold], db)
    ELSE Outcome([tag |-> "dict",
                  default_chain |-> "solana",
                  notifications_enabled |-> TRUE,
                  risk_threshold |-> 50], db)

-----------------------------------------------------------------------------
(* The request: bot.py's entry paths and analyze_token, one step per        *)
(* upstream call                                                            *)

\* the request failed as an invalid address before analyze_token was called
InvalidAddress == [tag |-> "InvalidAddress"]

EmptyAddress == [head |-> <<>>, len |-> 0]
\* '0x' and 40 more characters
EvmAddress == [head |-> <<"0", "x">>, len |-> 42]
\* 44 characters, no '0x' in front
SolanaAddress == [head |-> <<"A", "A">>, len |-> 44]
\* '0x' and 38 more characters: neither shape
OddAddress == [head |-> <<"0", "x">>, len |-> 40]

RequestAddresses == {EvmAddress, SolanaAddress, OddAddress}

\* The direct calls of analyze_token: each chain a caller may name, with an
\* address of its shape (the analyzer reads the address only to build URLs).
DirectCalls == {<<SolanaAddress, "solana">>, <<EvmAddress, "ethereum">>,
                <<EvmAddress, "bsc">>, <<OddAddress, "unknown">>}

\* get_holder_analysis was given no provider answer (it asked for none)
NoResponse == [status |-> "none", list |-> <<>>]

\* analyze_token: except Exception: return None
AnalyzeTokenReturn(v) == Try(v, None)

NextAfterBasic_always_dex(bd) == "dex"

\* analyze_token: if not basic_data: return None
NextAfterBasic(bd) == IF ~Truthy(bd) THEN "done" ELSE "dex"

NextAfterHolder_always_security(ha) == "security"

\* analyze_token: if not holder_analysis: return None
NextAfterHolder(ha) == IF ~Truthy(ha) THEN "done" ELSE "security"

\* analyze_token: the dict returned
Report(bd, dp, ha, sa) ==
    [tag |-> "report",
     chain |-> bd.chain,
     address |-> bd.address,
     liquidity |-> bd.liquidity,
     dex |-> bd.dex,
     pair_created_at |-> bd.pair_created_at,
     dex_pricing |-> dp,
     holder_analysis |-> ha,
     security_analysis |-> sa]

\* analyze_token: the dict returned, 'analysis_timestamp': int(time.time())
\* included
Stamped(report, t) ==
    CHOOSE stamped \in
        {[f \in DOMAIN x \cup {"analysis_timestamp"} |->
             IF f = "analysis_timestamp" THEN t ELSE x[f]] : x \in {report}} : TRUE

\* what analyze_token returns once its four steps have yielded bd, dp, ha
\* and sa: None after a falsy basic_data or holder_analysis, the dict
\* otherwise
Combined(bd, dp, ha, sa, t) ==
    IF bd = Exc THEN Exc
    ELSE IF NextAfterBasic(bd) = "done" THEN None
    ELSE IF dp = Exc THEN Exc
    ELSE IF ha = Exc THEN Exc
    ELSE IF NextAfterHolder(ha) = "done" THEN None
    ELSE IF sa = Exc THEN Exc
    ELSE Stamped(Report(bd, dp, ha, sa), t)

\* analyze_token as one function of its arguments, of the answers its four
\* upstream calls receive in order (market data, promotion data, the
\* holders, the holders again for the scorer) and of the clock reading t.
\* Each step's value is computed once.
analyze_token(addr, c, r, t) ==
    CHOOSE returned_value \in
        {AnalyzeTokenReturn(Combined(bd, dp, ha, sa, t)) :
            bd \in {get_basic_token_data(addr, c, r[1])},
            dp \in {get_dex_pricing_info(r[2])},
            ha \in {get_holder_analysis(c, r[3])},
            sa \in {get_security_analysis(again) :
                       again \in {get_holder_analysis(c, r[4])}}} : TRUE

\* a JSON number, as the pair carries it
JsonNumbers == {"0", "1700000000000"}

\* bot.py, format_deep_analysis: the message built from the report.  The age
\* is computed when pair_created_at is truthy, by created_at / 1000, which
\* raises on a value that is not a number.
format_deep_analysis(analysis) ==
    IF ~Truthy(analysis) THEN [tag |-> "message", text |-> "no token data"]
    ELSE LET created_at == analysis.pair_created_at IN
         IF created_at # "0" /\ created_at \notin JsonNumbers THEN Exc
         ELSE [tag |-> "message",
               text |-> "report",
               chain |-> analysis.chain,
               address |-> analysis.address,
               aged |-> created_at # "0",
               holders |-> analysis.holder_analysis.total_holders,
               security_score |-> analysis.security_analysis.security_score,
               risk_level |-> analysis.security_analysis.risk_level,
               dex |-> analysis.dex]

ShortCaption_defined(analysis) ==
    [tag |-> "caption", address |-> analysis.address]

\* bot.py, scan_token: the caption of the banner.  The f-string reads
\* market_cap_formatted and risk_level, names scan_token does not define.
ShortCaption(analysis) == Exc

\* the messages scan_token replies with
UsageHint == [tag |-> "message", text |-> "usage"]
UnknownChainError == [tag |-> "message", text |-> "unknown chain"]
NoDataError == [tag |-> "message", text |-> "no data"]
ScanError == [tag |-> "message", text |-> "scan error"]

\* update.message.reply_text(body), reply_photo(caption=body)
ReplyText(body) == [kind |-> "text", body |-> body]
ReplyPhoto(body) == [kind |-> "photo", body |-> body]

\* the entries of an upstream list that carry a positive amount
CountPositive(list) == Cardinality({k \in 1..Len(list) : list[k].ok /\ list[k].amount > 0})

\* One upstream call as the log keeps it: the provider, how the call ended,
\* how many items the answer listed (pairs, holder entries) and how many of
\* them hold a balance.
Call(source, status, count, positive) ==
    [source |-> source, status |-> status, count |-> count, positive |-> positive]

\* A handler that checks the chain before it analyzes (scan_token, the
\* refresh button).
CheckedEntry(name, addr) ==
    /\ pc = "idle"
    /\ entry' = name
    /\ token_address' = addr
    /\ chain' = detect_chain(addr)
    /\ IF detect_chain(addr) = "unknown"
       THEN pc' = "done" /\ result' = InvalidAddress
       ELSE pc' = "basic" /\ result' = Pending
    /\ UNCHANGED <<basic_data, dex_pricing, holder_analysis, security_analysis,
                   calls, listed, step_exc, raised, dc_addr, dc_out, sa_in, sa_out, heurVars, sideVars>>

ScanToken ==
    \E addr \in RequestAddresses : CheckedEntry("scan", addr)

RefreshCallback ==
    \E addr \in RequestAddresses : CheckedEntry("refresh", addr)

\* the show-holders button: analyze_token is called with whatever
\* detect_chain returned
HoldersCallback ==
    \E addr \in RequestAddresses :
        /\ pc = "idle"
        /\ entry' = "holders"
        /\ token_address' = addr
        /\ chain' = detect_chain(addr)
        /\ pc' = "basic"
        /\ UNCHANGED <<basic_data, dex_pricing, holder_analysis, security_analysis,
                       result, calls, listed, step_exc, raised, dc_addr, dc_out, sa_in, sa_out, heurVars, sideVars>>

\* analyze_token called directly
DirectAnalyze ==
    \E call \in DirectCalls :
        /\ pc = "idle"
        /\ entry' = "direct"
        /\ token_address' = call[1]
        /\ chain' = call[2]
        /\ pc' = "basic"
        /\ UNCHANGED <<basic_data, dex_pricing, holder_analysis, security_analysis,
                       result, calls, listed, step_exc, raised, dc_addr, dc_out, sa_in, sa_out, heurVars, sideVars>>

\* An exception reached analyze_token's own handler.
StepRaised ==
    /\ step_exc' = TRUE
    /\ result' = AnalyzeTokenReturn(Exc)
    /\ raised' = (AnalyzeTokenReturn(Exc) = Exc)
    /\ pc' = "done"

FetchBasic ==
    \E resp \in DexResponses :
        LET bd == get_basic_token_data(token_address, chain, resp) IN
        /\ pc = "basic"
        /\ calls' = Append(calls, Call("dexscreener", resp.status, Len(resp.pairs), 0))
        /\ IF bd = Exc
           THEN StepRaised /\ UNCHANGED basic_data
           ELSE /\ basic_data' = bd
                /\ pc' = NextAfterBasic(bd)
                /\ result' = IF NextAfterBasic(bd) = "done"
                             THEN AnalyzeTokenReturn(None) ELSE result
                /\ UNCHANGED <<step_exc, raised>>
        /\ UNCHANGED <<entry, token_address, chain, dex_pricing, holder_analysis,
                       security_analysis, listed, dc_addr, dc_out, sa_in, sa_out, heurVars, sideVars>>

FetchDexPricing ==
    \E resp \in DexResponses :
        LET dp == get_dex_pricing_info(resp) IN
        /\ pc = "dex"
        /\ calls' = Append(calls, Call("dexscreener", resp.status, Len(resp.pairs), 0))
        /\ IF dp = Exc
           THEN StepRaised /\ UNCHANGED dex_pricing
           ELSE /\ dex_pricing' = dp
                /\ pc' = "holder"
                /\ UNCHANGED <<result, step_exc, raised>>
        /\ UNCHANGED <<entry, token_address, chain, basic_data, holder_analysis,
                       security_analysis, listed, dc_addr, dc_out, sa_in, sa_out, heurVars, sideVars>>

\* analyze_token's holder step, given what get_holder_analysis returned
HolderStep(ha) ==
    /\ IF ha = Exc
       THEN StepRaised /\ UNCHANGED holder_analysis
       ELSE /\ holder_analysis' = ha
            /\ pc' = NextAfterHolder(ha)
            /\ result' = IF NextAfterHolder(ha) = "done"
                         THEN AnalyzeTokenReturn(None) ELSE result
            /\ UNCHANGED <<step_exc, raised>>
    /\ UNCHANGED <<entry, token_address, chain, basic_data, dex_pricing,
                   security_analysis, dc_addr, dc_out, sa_in, sa_out, heurVars, sideVars>>

FetchHolders ==
    \E resp \in HolderResponses :
        /\ pc = "holder"
        /\ chain \in SupportedChains
        /\ calls' = Append(calls, Call(HolderSource(chain), resp.status, Len(resp.list), CountPositive(resp.list)))
        /\ listed' = resp.list
        /\ HolderStep(get_holder_analysis(chain, resp))

HoldersWithoutFetch ==
    /\ pc = "holder"
    /\ chain \notin SupportedChains
    /\ calls' = calls
    /\ listed' = listed
    /\ HolderStep(get_holder_analysis(chain, NoResponse))

\* analyze_token's last step, given what get_security_analysis returned
SecurityStep(sa) ==
    /\ IF sa = Exc
       THEN StepRaised /\ UNCHANGED security_analysis
       ELSE /\ security_analysis' = sa
            /\ result' = AnalyzeTokenReturn(Report(basic_data, dex_pricing, holder_analysis, sa))
            /\ pc' = "done"
            /\ UNCHANGED <<step_exc, raised>>
    /\ UNCHANGED <<entry, token_address, chain, basic_data, dex_pricing,
                   holder_analysis, listed, dc_addr, dc_out, sa_in, sa_out, heurVars, sideVars>>

\* get_security_analysis fetches the holders again before it scores
FetchSecurityOn(resp) ==
    /\ pc = "security"
    /\ chain \in SupportedChains
    /\ calls' = Append(calls, Call(HolderSource(chain), resp.status, Len(resp.list), CountPositive(resp.list)))
    /\ SecurityStep(get_security_analysis(get_holder_analysis(chain, resp)))

FetchSecurity == \E resp \in HolderResponses : FetchSecurityOn(resp)

SecurityWithoutFetch ==
    /\ pc = "security"
    /\ chain \notin SupportedChains
    /\ calls' = calls
    /\ SecurityStep(get_security_analysis(get_holder_analysis(chain, NoResponse)))

InitRequest ==
    /\ pc = "idle"
    /\ entry = "none"
    /\ token_address = EmptyAddress
    /\ chain = "none"
    /\ basic_data = Pending
    /\ dex_pricing = Pending
    /\ holder_analysis = Pending
    /\ security_analysis = Pending
    /\ result = Pending
    /\ calls = <<>>
    /\ listed = <<>>
    /\ step_exc = FALSE
    /\ raised = FALSE

\* the handler has answered; the next request starts from scratch
Finish ==
    /\ pc = "done"
    /\ pc' = "idle"
    /\ entry' = "none"
    /\ token_address' = EmptyAddress
    /\ chain' = "none"
    /\ basic_data' = Pending
    /\ dex_pricing' = Pending
    /\ holder_analysis' = Pending
    /\ security_analysis' = Pending
    /\ result' = Pending
    /\ calls' = <<>>
    /\ listed' = <<>>
    /\ step_exc' = FALSE
    /\ raised' = FALSE
    /\ UNCHANGED <<dc_addr, dc_out, sa_in, sa_out, heurVars, sideVars>>

InitIdleChain == dc_addr = EmptyAddress /\ dc_out = "none"

InitIdleScore ==
    /\ sa_in = [holder |-> None, is_verified |-> FALSE,
                is_honeypot |-> FALSE, rug_indicators |-> FALSE]
    /\ sa_out = Pending

InitIdleRisk == rl_score = 0 /\ rl_out = "none"

InitIdleBundles == db_holders = <<>> /\ db_out = Pending

InitIdleDistribution == hd_holders = <<>> /\ hd_out = "none"

InitIdleHeuristics == InitIdleRisk /\ InitIdleBundles /\ InitIdleDistribution

\* the callers of add_to_watchlist
Callers == {1, 2}

InitIdleDatabase ==
    /\ db_path = "none"
    /\ disk = EmptyDatabase
    /\ adding = [c \in Callers |-> None]
    /\ returned = Pending

\* the answers of the four upstream calls of an analysis not yet made
NoUpstream == <<NoResponse, NoResponse, NoResponse, NoResponse>>

InitIdleScan ==
    /\ scan_in = [args |-> <<>>, banner_opens |-> FALSE, upstream |-> NoUpstream]
    /\ scan_pc = "none"
    /\ token_analysis = Pending
    /\ replies = <<>>

\* the analyze_token calls told apart
RunIds == {1, 2}

\* a call not yet made
IdleRun ==
    [pc |-> "idle", token_address |-> EmptyAddress, chain |-> "none",
     basic_data |-> Pending, dex_pricing |-> Pending,
     holder_analysis |-> Pending, security_analysis |-> Pending,
     received |-> <<>>, overlapped |-> FALSE, result |-> Pending]

\* requests.Session(): the headers set once in __init__, no cookie yet
NewSession == [headers |-> "User-Agent", cookies |-> {}]

InitIdleRuns ==
    /\ runs = [r \in RunIds |-> IdleRun]
    /\ session = NewSession

InitIdleSide == InitIdleDatabase /\ InitIdleScan /\ InitIdleRuns /\ now = 0

Init == InitRequest /\ InitIdleChain /\ InitIdleScore /\ InitIdleHeuristics /\ InitIdleSide

Next ==
    \/ ScanToken
    \/ RefreshCallback
    \/ HoldersCallback
    \/ DirectAnalyze
    \/ FetchBasic
    \/ FetchDexPricing
    \/ FetchHolders
    \/ HoldersWithoutFetch
    \/ FetchSecurity
    \/ SecurityWithoutFetch
    \/ Finish

Spec == Init /\ [][Next]_vars

-----------------------------------------------------------------------------
(* detect_chain applied to every address *)

InitChain ==
    /\ InitRequest
    /\ InitIdleScore
    /\ InitIdleHeuristics
    /\ InitIdleSide
    /\ dc_addr \in Addresses
    /\ dc_out = "none"

DetectChain ==
    /\ dc_out = "none"
    /\ dc_out' = detect_chain(dc_addr)
    /\ UNCHANGED <<reqVars, dc_addr, sa_in, sa_out, heurVars, sideVars>>

NextChain == DetectChain

SpecChain == InitChain /\ [][NextChain]_vars

-----------------------------------------------------------------------------
(* The security scorer applied to holder analyses and static checks *)

\* the thresholds the scorer compares a percentage with
ScoreThresholds == {15, 20, 30, 40, 50, 70}

\* Every percentage compares with the thresholds as one of these does: 0,
\* each threshold, the next multiple of 1/PctDen above it, and 100.
ScorePcts ==
    {Ratio(0, 1), Ratio(100, 1)} \cup
    {Ratio(t * PctDen + d, PctDen) : t \in ScoreThresholds, d \in {0, 1}}

\* dev-wallet shares: those, and one share inside each band between the
\* dev-wallet thresholds
DevPcts == ScorePcts \cup {Ratio(p, 1) : p \in {10, 25, 35, 55}}

\* The fields of a holder analysis the scorer reads.
ScoreHolders ==
    [tag : {"dict"},
     dev_wallet_percentage : DevPcts,
     top_10_percentage : ScorePcts,
     bundle_detected : BOOLEAN,
     bundle_percentage : ScorePcts]

ScoreInputs ==
    [holder : ScoreHolders \cup {None, Malformed},
     is_verified : BOOLEAN,
     is_honeypot : BOOLEAN,
     rug_indicators : BOOLEAN]

\* p < q
PctLT(p, q) == p.num * q.den < q.num * p.den

\* get_security_analysis from its holder analysis on, the static checks
\* answering as the input says
Scored(in) ==
    Try(SecurityScoring(in.holder, in.is_verified, in.is_honeypot, in.rug_indicators),
        SecurityFallback)

InitScore ==
    /\ InitRequest
    /\ InitIdleChain
    /\ InitIdleHeuristics
    /\ InitIdleSide
    /\ sa_in \in ScoreInputs
    /\ sa_out = Pending

Score ==
    /\ sa_out = Pending
    /\ sa_out' = Scored(sa_in)
    /\ UNCHANGED <<reqVars, dc_addr, dc_out, sa_in, heurVars, sideVars>>

\* the scorer run again on the input in
Rescore(in) ==
    /\ sa_out # Pending
    /\ sa_in' = in
    /\ sa_out' = Scored(in)
    /\ UNCHANGED <<reqVars, dc_addr, dc_out, heurVars, sideVars>>

IsDict(v) == v # None /\ v # Malformed

RaiseDevWallet ==
    \E p \in DevPcts :
        /\ IsDict(sa_in.holder)
        /\ PctLT(sa_in.holder.dev_wallet_percentage, p)
        /\ Rescore([sa_in EXCEPT !.holder.dev_wallet_percentage = p])

RaiseTop10 ==
    \E p \in ScorePcts :
        /\ IsDict(sa_in.holder)
        /\ PctLT(sa_in.holder.top_10_percentage, p)
        /\ Rescore([sa_in EXCEPT !.holder.top_10_percentage = p])

RaiseBundlePercentage ==
    \E p \in ScorePcts :
        /\ IsDict(sa_in.holder)
        /\ sa_in.holder.bundle_detected
        /\ PctLT(sa_in.holder.bundle_percentage, p)
        /\ Rescore([sa_in EXCEPT !.holder.bundle_percentage = p])

SwitchBundleDetected ==
    /\ IsDict(sa_in.holder)
    /\ ~sa_in.holder.bundle_detected
    /\ Rescore([sa_in EXCEPT !.holder.bundle_detected = TRUE])

SwitchHoneypot ==
    /\ ~sa_in.is_honeypot
    /\ Rescore([sa_in EXCEPT !.is_honeypot = TRUE])

SwitchRugIndicators ==
    /\ ~sa_in.rug_indicators
    /\ Rescore([sa_in EXCEPT !.rug_indicators = TRUE])

\* one penalty-triggering input gets worse, the others stay
Worsen ==
    \/ RaiseDevWallet
    \/ RaiseTop10
    \/ RaiseBundlePercentage
    \/ SwitchBundleDetected
    \/ SwitchHoneypot
    \/ SwitchRugIndicators

NextScore == Score \/ Worsen

SpecScore == InitScore /\ [][NextScore]_vars

-----------------------------------------------------------------------------
(* classify_risk_level applied to every score *)

RiskScores == (0 - MaxRiskScore)..MaxRiskScore

InitRisk ==
    /\ InitRequest
    /\ InitIdleChain
    /\ InitIdleScore
    /\ InitIdleBundles
    /\ InitIdleDistribution
    /\ InitIdleSide
    /\ rl_score \in RiskScores
    /\ rl_out = "none"

ClassifyRiskLevel ==
    /\ rl_out = "none"
    /\ rl_out' = classify_risk_level(rl_score)
    /\ UNCHANGED <<reqVars, dc_addr, dc_out, sa_in, sa_out, rl_score,
                   db_holders, db_out, hd_holders, hd_out, sideVars>>

NextRisk == ClassifyRiskLevel

SpecRisk == InitRisk /\ [][NextRisk]_vars

-----------------------------------------------------------------------------
(* detect_bundles applied to holder lists *)

\* Balances that tell the 5% test apart: 42 and 43 collect each other; a
\* representative of 42 collects 40 (2/42 < 0.05), one of 40 does not
\* collect 42 (2/40 is not below 0.05); 40 and 43 are apart either way.
BundleAmounts == {0, 40, 42, 43}

BundleEntries == {[ok |-> FALSE, amount |-> 0]} \cup
                 {[ok |-> TRUE, amount |-> a] : a \in BundleAmounts}

InitBundles ==
    /\ InitRequest
    /\ InitIdleChain
    /\ InitIdleScore
    /\ InitIdleRisk
    /\ InitIdleDistribution
    /\ InitIdleSide
    /\ db_holders \in SeqsUpTo(BundleEntries, MaxBundleHolders)
    /\ db_out = Pending

DetectBundles ==
    /\ db_out = Pending
    /\ db_out' = detect_bundles(db_holders)
    /\ UNCHANGED <<reqVars, dc_addr, dc_out, sa_in, sa_out, rl_score, rl_out,
                   db_holders, hd_holders, hd_out, sideVars>>

NextBundles == DetectBundles

SpecBundles == InitBundles /\ [][NextBundles]_vars

-----------------------------------------------------------------------------
(* classify_holder_distribution applied to holder lists *)

\* Balances that put the share of the first five holders on the thresholds
\* and next to them: 4 of 5 is 80%, 1 of 2 is 50%, 1 of 5 is 20%, 81 of 100
\* is 81%.
DistributionAmounts == {0, 1, 4, 19, 81}

DistributionEntries == {[ok |-> FALSE, amount |-> 0]} \cup
                       {[ok |-> TRUE, amount |-> a] : a \in DistributionAmounts}

InitDistribution ==
    /\ InitRequest
    /\ InitIdleChain
    /\ InitIdleScore
    /\ InitIdleRisk
    /\ InitIdleBundles
    /\ InitIdleSide
    /\ hd_holders \in SeqsUpTo(DistributionEntries, MaxDistributionHolders)
    /\ hd_out = "none"

ClassifyHolderDistribution ==
    /\ hd_out = "none"
    /\ hd_out' = classify_holder_distribution(hd_holders)
    /\ UNCHANGED <<reqVars, dc_addr, dc_out, sa_in, sa_out, rl_score, rl_out,
                   db_holders, db_out, hd_holders, sideVars>>

NextDistribution == ClassifyHolderDistribution

SpecDistribution == InitDistribution /\ [][NextDistribution]_vars

-----------------------------------------------------------------------------
(* The Database object: its construction and its methods, each on a         *)
(* connection of its own                                                    *)

\* the variables of the analyzer and of its parts
analyzerVars == <<reqVars, dc_addr, dc_out, sa_in, sa_out, heurVars>>

InitDatabase ==
    /\ InitRequest
    /\ InitIdleChain
    /\ InitIdleScore
    /\ InitIdleHeuristics
    /\ InitIdleDatabase
    /\ InitIdleScan
    /\ InitIdleRuns
    /\ now = 0

\* A method ran on the connection it opened, from sqlite3.connect to
\* conn.close(): out is its outcome.  A statement that raises leaves the
\* method before conn.commit().
Ran(path, out) ==
    /\ disk' = IF out.value = Exc THEN disk ELSE Commit(path, disk, out.db)
    /\ returned' = out.value

\* Database(db_path)
Construct ==
    \E path \in DbPaths :
        /\ db_path = "none"
        /\ db_path' = path
        /\ Ran(path, init_database(Connect(path, disk)))
        /\ UNCHANGED <<adding, analyzerVars, scanVars, runVars, now>>

AddUser ==
    \E u \in UserIds :
        /\ db_path # "none"
        /\ Ran(db_path, add_user(Connect(db_path, disk), u))
        /\ UNCHANGED <<db_path, adding, analyzerVars, scanVars, runVars, now>>

LogTokenScan ==
    \E u \in UserIds :
        /\ db_path # "none"
        /\ disk.token_scans < MaxScans
        /\ Ran(db_path, log_token_scan(Connect(db_path, disk), u))
        /\ UNCHANGED <<db_path, adding, analyzerVars, scanVars, runVars, now>>

\* add_to_watchlist, from its start to the if after the SELECT: a caller that
\* found no row goes on to the INSERT
AddToWatchlistSelect ==
    \E c \in Callers, u \in UserIds, t \in WatchTokens, ch \in WatchChains :
        LET r == WatchRow(u, t, ch)
            out == add_to_watchlist_select(Connect(db_path, disk), r)
        IN  /\ db_path # "none"
            /\ adding[c] = None
            /\ IF out.value = Exc
               THEN returned' = Exc /\ adding' = adding
               ELSE IF out.value.v                \* if cursor.fetchone():
               THEN returned' = Bool(FALSE) /\ adding' = adding
               ELSE returned' = returned /\ adding' = [adding EXCEPT ![c] = r]
            /\ UNCHANGED <<db_path, disk, analyzerVars, scanVars, runVars, now>>

\* add_to_watchlist, from the INSERT on
AddToWatchlistInsert ==
    \E c \in Callers :
        /\ adding[c] # None
        /\ Ran(db_path, add_to_watchlist_insert(Connect(db_path, disk), adding[c]))
        /\ adding' = [adding EXCEPT ![c] = None]
        /\ UNCHANGED <<db_path, analyzerVars, scanVars, runVars, now>>

RemoveFromWatchlist ==
    \E u \in UserIds, t \in WatchTokens, ch \in WatchChains :
        /\ db_path # "none"
        /\ Ran(db_path, remove_from_watchlist(Connect(db_path, disk), WatchRow(u, t, ch)))
        /\ UNCHANGED <<db_path, adding, analyzerVars, scanVars, runVars, now>>

GetWatchlist ==
    \E u \in UserIds :
        /\ db_path # "none"
        /\ Ran(db_path, get_watchlist(Connect(db_path, disk), u))
        /\ UNCHANGED <<db_path, adding, analyzerVars, scanVars, runVars, now>>

UpdateUserPreferences(u, p) ==
    /\ db_path # "none"
    /\ Ran(db_path, update_user_preferences(Connect(db_path, disk), u, p))
    /\ UNCHANGED <<db_path, adding, analyzerVars, scanVars, runVars, now>>

UpdateAnyUserPreferences ==
    \E u \in UserIds, p \in PreferenceDicts : UpdateUserPreferences(u, p)

GetUserPreferences ==
    \E u \in UserIds :
        /\ db_path # "none"
        /\ Ran(db_path, get_user_preferences(Connect(db_path, disk), u))
        /\ UNCHANGED <<db_path, adding, analyzerVars, scanVars, runVars, now>>

NextDatabase ==
    \/ Construct
    \/ AddUser
    \/ LogTokenScan
    \/ AddToWatchlistSelect
    \/ AddToWatchlistInsert
    \/ RemoveFromWatchlist
    \/ GetWatchlist
    \/ UpdateAnyUserPreferences
    \/ GetUserPreferences

SpecDatabase == InitDatabase /\ [][NextDatabase]_vars

-----------------------------------------------------------------------------
(* bot.py, scan_token: the handler from its call to its return, one step    *)
(* per point at which it sends something                                    *)

\* The first pair as DexScreener may answer a scan: pairCreatedAt absent, a
\* number, or a text.
ScanPairs == [dexId : {"raydium"},
              pairCreatedAt : {NoKey, "1700000000000", "2023-11-14T22:13:20Z"},
              liquidity_usd : {"2500.0"},
              basic_ok : {TRUE},
              pricing_ok : {TRUE}]

ScanDexResponses ==
    {[status |-> "non200", pairs |-> <<>>]} \cup
    {[status |-> "ok", pairs |-> <<p>>] : p \in ScanPairs}

ScanHolderResponses ==
    {[status |-> "exc", list |-> <<>>], [status |-> "ok", list |-> Run(1, 1)]}

\* the clock moves on
Tick ==
    /\ now < MaxClock
    /\ now' = now + 1
    /\ UNCHANGED <<analyzerVars, dbVars, scanVars, runVars>>

InitScan ==
    /\ InitRequest
    /\ InitIdleChain
    /\ InitIdleScore
    /\ InitIdleHeuristics
    /\ InitIdleDatabase
    /\ InitIdleRuns
    /\ now = 0
    /\ scan_in \in [args : {<<>>} \cup {<<a>> : a \in RequestAddresses},
                    banner_opens : BOOLEAN,
                    upstream : ScanDexResponses \X ScanDexResponses \X
                               ScanHolderResponses \X ScanHolderResponses]
    /\ scan_pc = "start"
    /\ token_analysis = Pending
    /\ replies = <<>>

\* if not context.args: the usage reply, return
ScanTokenArgs ==
    /\ scan_pc = "start"
    /\ IF scan_in.args = <<>>
       THEN replies' = Append(replies, ReplyText(UsageHint)) /\ scan_pc' = "end"
       ELSE replies' = replies /\ scan_pc' = "typing"
    /\ UNCHANGED <<scan_in, token_analysis, analyzerVars, dbVars, runVars, now>>

\* context.bot.send_chat_action(..., action='typing')
ScanTokenTyping ==
    /\ scan_pc = "typing"
    /\ scan_pc' = "try"
    /\ UNCHANGED <<scan_in, token_analysis, replies, analyzerVars, dbVars, runVars, now>>

\* The try block up to the banner: detect_chain, analyze_token,
\* format_deep_analysis; an exception of any of them reaches the outer
\* handler, which replies with the scan error.
ScanTokenTry ==
    \E addr \in {scan_in.args[k] : k \in {1} \cap DOMAIN scan_in.args} :
    \E c \in {detect_chain(addr)} :
    \E analysis \in {IF c = "unknown" THEN Pending
                     ELSE analyze_token(addr, c, scan_in.upstream, now)} :
    \E formatted_message \in {IF c = "unknown" \/ analysis = Exc THEN Pending
                              ELSE format_deep_analysis(analysis)} :
        /\ scan_pc = "try"
        /\ IF c = "unknown"
           THEN /\ replies' = Append(replies, ReplyText(UnknownChainError))
                /\ scan_pc' = "end"
                /\ UNCHANGED token_analysis
           ELSE IF analysis = Exc
           THEN /\ replies' = Append(replies, ReplyText(ScanError))
                /\ scan_pc' = "end"
                /\ UNCHANGED token_analysis
           ELSE /\ token_analysis' = analysis
                /\ IF ~Truthy(analysis)
                   THEN /\ replies' = Append(replies, ReplyText(NoDataError))
                        /\ scan_pc' = "end"
                   ELSE IF formatted_message = Exc
                   THEN /\ replies' = Append(replies, ReplyText(ScanError))
                        /\ scan_pc' = "end"
                   ELSE /\ replies' = replies
                        /\ scan_pc' = "banner"
        /\ UNCHANGED <<scan_in, analyzerVars, dbVars, runVars, now>>

\* The inner try: open() of the banner file, the caption, reply_photo and
\* reply_text; on any exception the handler replies with the text alone.
ScanTokenBanner ==
    LET formatted_message == format_deep_analysis(token_analysis)
        caption == IF scan_in.banner_opens THEN ShortCaption(token_analysis) ELSE Exc
    IN  /\ scan_pc = "banner"
        /\ replies' = IF caption = Exc
                      THEN Append(replies, ReplyText(formatted_message))
                      ELSE replies \o <<ReplyPhoto(caption), ReplyText(formatted_message)>>
        /\ scan_pc' = "end"
        /\ UNCHANGED <<scan_in, token_analysis, analyzerVars, dbVars, runVars, now>>

\* a step of the handler
ScanTokenStep ==
    \/ ScanTokenArgs
    \/ ScanTokenTyping
    \/ ScanTokenTry
    \/ ScanTokenBanner

NextScan ==
    \/ ScanTokenArgs
    \/ ScanTokenTyping
    \/ ScanTokenTry
    \/ ScanTokenBanner
    \/ Tick

SpecScan == InitScan /\ [][NextScan]_vars

-----------------------------------------------------------------------------
(* deep_analyzer.py: analyze_token calls in progress at once on one         *)
(* analyzer, each with its own locals, all sending through self.session     *)

RunCalls == {<<SolanaAddress, "solana">>, <<EvmAddress, "ethereum">>}

RunDexResponses ==
    {[status |-> "non200", pairs |-> <<>>],
     [status |-> "ok",
      pairs |-> <<[dexId |-> "raydium", pairCreatedAt |-> "1700000000000",
                   liquidity_usd |-> "2500.0", basic_ok |-> TRUE,
                   pricing_ok |-> TRUE]>>]}

RunHolderResponses ==
    {[status |-> "exc", list |-> <<>>], [status |-> "ok", list |-> Run(1, 1)]}

\* self.session.get / self.session.post: the caller gets the answer of the
\* host; the session keeps the cookie of a host that answered.
SessionGet(s, host, resp) ==
    [response |-> resp,
     session |-> [s EXCEPT !.cookies =
                     IF resp.status = "exc" THEN @ ELSE @ \cup {host}]]

RunStore_holders_on_object(rs, r, name, value) ==
    IF name = "holder_analysis"
    THEN [x \in DOMAIN rs |-> [rs[x] EXCEPT !.holder_analysis = value]]
    ELSE [rs EXCEPT ![r][name] = value]

\* analyze_token assigns a step's value to a local variable of the call
RunStore(rs, r, name, value) == [rs EXCEPT ![r][name] = value]

\* another call is in progress
Overlaps(r) == \E other \in RunIds \ {r} : runs[other].pc \notin {"idle", "done"}

\* Call r got resp, its step yielded value for the local name, and the call
\* goes on at position next: an exception, or next = "done", ends it with
\* None.
RunStep(r, resp, name, value, next) ==
    LET logged == [runs EXCEPT ![r].received = Append(@, resp),
                               ![r].overlapped = @ \/ Overlaps(r)]
        stored == RunStore(logged, r, name, value)
    IN  IF value = Exc
        THEN [logged EXCEPT ![r].pc = "done", ![r].result = AnalyzeTokenReturn(Exc)]
        ELSE IF next = "done"
        THEN [stored EXCEPT ![r].pc = "done", ![r].result = AnalyzeTokenReturn(None)]
        ELSE [stored EXCEPT ![r].pc = next]

InitRuns ==
    /\ InitRequest
    /\ InitIdleChain
    /\ InitIdleScore
    /\ InitIdleHeuristics
    /\ InitIdleDatabase
    /\ InitIdleScan
    /\ InitIdleRuns
    /\ now = 0

\* analyze_token(token_address, chain) is called
RunStart(r) ==
    \E call \in RunCalls :
        /\ runs[r].pc = "idle"
        /\ runs' = [runs EXCEPT ![r] = [IdleRun EXCEPT !.pc = "basic",
                                                      !.token_address = call[1],
                                                      !.chain = call[2],
                                                      !.overlapped = Overlaps(r)]]
        /\ UNCHANGED <<session, now, analyzerVars, dbVars, scanVars>>

RunFetchBasic(r) ==
    \E resp \in RunDexResponses :
    \E got \in {SessionGet(session, "dexscreener", resp)} :
    \E bd \in {get_basic_token_data(runs[r].token_address, runs[r].chain, got.response)} :
        /\ runs[r].pc = "basic"
        /\ session' = got.session
        /\ runs' = RunStep(r, resp, "basic_data", bd, NextAfterBasic(bd))
        /\ UNCHANGED <<now, analyzerVars, dbVars, scanVars>>

RunFetchDexPricing(r) ==
    \E resp \in RunDexResponses :
    \E got \in {SessionGet(session, "dexscreener", resp)} :
    \E dp \in {get_dex_pricing_info(got.response)} :
        /\ runs[r].pc = "dex"
        /\ session' = got.session
        /\ runs' = RunStep(r, resp, "dex_pricing", dp, "holder")
        /\ UNCHANGED <<now, analyzerVars, dbVars, scanVars>>

RunFetchHolders(r) ==
    \E resp \in RunHolderResponses :
    \E got \in {SessionGet(session, HolderSource(runs[r].chain), resp)} :
    \E ha \in {get_holder_analysis(runs[r].chain, got.response)} :
        /\ runs[r].pc = "holder"
        /\ session' = got.session
        /\ runs' = RunStep(r, resp, "holder_analysis", ha, NextAfterHolder(ha))
        /\ UNCHANGED <<now, analyzerVars, dbVars, scanVars>>

\* get_security_analysis fetches the holders again; then the dict is built
\* from the locals and stamped with the clock
RunFetchSecurity(r) ==
    \E resp \in RunHolderResponses :
    \E got \in {SessionGet(session, HolderSource(runs[r].chain), resp)} :
    \E again \in {get_holder_analysis(runs[r].chain, got.response)} :
    \E sa \in {get_security_analysis(again)} :
    \E after \in {RunStep(r, resp, "security_analysis", sa, "return")} :
        /\ runs[r].pc = "security"
        /\ session' = got.session
        /\ runs' = IF after[r].pc = "done" THEN after
                   ELSE [after EXCEPT
                           ![r].pc = "done",
                           ![r].result = AnalyzeTokenReturn(
                               Stamped(Report(after[r].basic_data, after[r].dex_pricing,
                                              after[r].holder_analysis,
                                              after[r].security_analysis), now))]
        /\ UNCHANGED <<now, analyzerVars, dbVars, scanVars>>

NextRuns ==
    \/ \E r \in RunIds : RunStart(r)
    \/ \E r \in RunIds : RunFetchBasic(r)
    \/ \E r \in RunIds : RunFetchDexPricing(r)
    \/ \E r \in RunIds : RunFetchHolders(r)
    \/ \E r \in RunIds : RunFetchSecurity(r)
    \/ Tick

SpecRuns == InitRuns /\ [][NextRuns]_vars

-----------------------------------------------------------------------------
(* Properties *)

\* analyze_token's calls, in the order it issues them
MarketCall == 1
PricingCall == 2
HolderCall == 3
ScoringCall == 4

IsReport(v) == v.tag = "report"

\* the market-data fetch yielded no data: a network error, a status other
\* than 200, or an empty pairs list
MarketNoData(call) ==
    \/ call.status \in {"exc", "non200"}
    \/ call.status = "ok" /\ call.count = 0

\* C1: when the market-data fetch yields no data (network error, non-200
\* status, empty pairs list) analyze_token returns None, on every chain, and
\* the request performs no holder fetch and no security analysis.
C1_NoMarketDataNoReport ==
    (Len(calls) >= MarketCall /\ MarketNoData(calls[MarketCall]))
    => /\ pc = "done"
       /\ result = None
       /\ Len(calls) = MarketCall
       /\ holder_analysis = Pending
       /\ security_analysis = Pending

C1_Witness ==
    /\ pc = "done"
    /\ chain = "bsc"
    /\ Len(calls) = MarketCall
    /\ calls[MarketCall].status = "ok"
    /\ calls[MarketCall].count = 0
    /\ result = None

\* the Solana holder fetch failed (exception, non-200 status, unreadable
\* body, missing result) or listed no account with a positive balance
SolanaHoldersUnavailable(call) ==
    \/ call.status # "ok"
    \/ call.positive = 0

\* C2: on solana, when the holder fetch of analyze_token fails or yields no
\* account with a positive balance, analyze_token returns None; a Solana
\* report never carries a default or empty holder section: its holder
\* section counts the positive-balance accounts of the answer fetched.
C2_SolanaNoHoldersNoReport ==
    chain = "solana" =>
        /\ (Len(calls) >= HolderCall /\ SolanaHoldersUnavailable(calls[HolderCall]))
           => (pc = "done" /\ result = None /\ Len(calls) = HolderCall)
        /\ (pc = "done" /\ IsReport(result))
           => /\ result.holder_analysis.total_holders > 0
              /\ result.holder_analysis.total_holders = calls[HolderCall].positive
              /\ result.holder_analysis.holder_distribution # "unknown"

C2_Witness ==
    /\ pc = "done"
    /\ chain = "solana"
    /\ Len(calls) = HolderCall
    /\ calls[HolderCall].status = "ok"
    /\ calls[HolderCall].count > 0
    /\ calls[HolderCall].positive = 0
    /\ result = None

\* the EVM holder fetch failed or returned an empty list
EvmHoldersUnavailable(call) ==
    \/ call.status # "ok"
    \/ call.count = 0

\* C3: on ethereum and bsc, with market data found, a holder fetch that
\* fails or returns an empty list still ends in a report, whose holder
\* section is the all-zero default.
C3_EvmDegradesToDefault ==
    (/\ chain \in {"ethereum", "bsc"}
     /\ pc = "done"
     /\ Len(calls) >= HolderCall
     /\ EvmHoldersUnavailable(calls[HolderCall]))
    => /\ IsReport(result)
       /\ result.holder_analysis.total_holders = 0
       /\ result.holder_analysis.top_10_percentage = ZeroPct
       /\ result.holder_analysis.top_50_percentage = ZeroPct
       /\ result.holder_analysis.dev_wallet_percentage = ZeroPct
       /\ result.holder_analysis.bundle_percentage = ZeroPct
       /\ result.holder_analysis.bundle_detected = FALSE
       /\ result.holder_analysis.holder_distribution = "unknown"

C3_Witness ==
    /\ pc = "done"
    /\ chain = "bsc"
    /\ Len(calls) = ScoringCall
    /\ calls[HolderCall].status = "exc"
    /\ IsReport(result)
    /\ result.holder_analysis.total_holders = 0

\* C4: every report analyze_token returns holds a holder section and a
\* security section that are dicts, never None, whatever the chain and
\* whatever the upstream calls yielded.
C4_ReportSectionsPopulated ==
    (pc = "done" /\ IsReport(result))
    => /\ result.holder_analysis.tag = "dict"
       /\ result.security_analysis.tag = "dict"
       /\ result.holder_analysis = holder_analysis
       /\ result.security_analysis = security_analysis

C4_Witness ==
    /\ pc = "done"
    /\ IsReport(result)
    /\ chain = "solana"
    /\ calls[PricingCall].status = "non200"
    /\ calls[ScoringCall].status = "exc"
    /\ result.holder_analysis.tag = "dict"
    /\ result.security_analysis.tag = "dict"

\* the two address shapes
EvmShape(a) == StartsWith0x(a) /\ a.len = 42
SolanaShape(a) == a.len >= 32 /\ a.len <= 44 /\ ~StartsWith0x(a)

\* C5: a request whose address has neither the EVM nor the Solana shape
\* issues no upstream fetch and produces no report, on every entry path.
C5_InvalidAddressNoFetchNoReport ==
    (pc # "idle" /\ ~EvmShape(token_address) /\ ~SolanaShape(token_address))
    => /\ calls = <<>>
       /\ ~IsReport(result)

\* C6: detect_chain returns 'ethereum' exactly for '0x' + length 42,
\* 'solana' exactly for length 32..44 without '0x', 'unknown' for every
\* other string; never both, never 'bsc'.
C6_DetectChainByShape ==
    dc_out # "none" =>
        /\ dc_out \in {"ethereum", "solana", "unknown"}
        /\ (dc_out = "ethereum") <=> EvmShape(dc_addr)
        /\ (dc_out = "solana") <=> SolanaShape(dc_addr)
        /\ (dc_out = "unknown") <=> (~EvmShape(dc_addr) /\ ~SolanaShape(dc_addr))
        /\ ~(EvmShape(dc_addr) /\ SolanaShape(dc_addr))

C6_Witness ==
    /\ dc_out = "ethereum"
    /\ dc_addr.len = 42
    /\ StartsWith0x(dc_addr)

\* the holder provider raising, the response under which the last step is
\* shown to be possible
ProviderRaises == [status |-> "exc", list |-> <<>>]

\* C7: analyze_token never raises: no exception leaves one of its steps or
\* analyze_token itself, whatever the providers do; it makes at most four
\* upstream calls, can always take its next step, and ends with a report or
\* with None.
C7_NeverRaises ==
    /\ ~raised
    /\ ~step_exc
    /\ Len(calls) <= ScoringCall
    /\ pc = "basic" => ENABLED FetchBasic
    /\ pc = "dex" => ENABLED FetchDexPricing
    /\ pc = "holder" => ENABLED (FetchHolders \/ HoldersWithoutFetch)
    /\ pc = "security" => ENABLED (FetchSecurityOn(ProviderRaises) \/ SecurityWithoutFetch)
    /\ (pc = "done" /\ result # InvalidAddress) => (result = None \/ IsReport(result))

C7_Witness ==
    /\ pc = "done"
    /\ Len(calls) = ScoringCall
    /\ calls[PricingCall].status = "exc"
    /\ calls[HolderCall].status = "ok"
    /\ calls[HolderCall].count > calls[HolderCall].positive
    /\ calls[ScoringCall].status = "badjson"
    /\ IsReport(result)

\* C8: the security_score of every SecurityAnalysis, scored or fallback, is
\* an integer from 0 to 100.
C8_ScoreInRange ==
    sa_out # Pending => sa_out.security_score \in 0..100

C8_Witness ==
    /\ sa_out # Pending
    /\ sa_in.is_honeypot
    /\ sa_in.rug_indicators
    /\ ~sa_in.is_verified
    /\ sa_out.security_score = 0

\* The penalty table, one entry per category in the order verification, dev
\* wallet, top 10, bundle, honeypot, rug indicator: the first threshold that
\* applies, 0 when none does.
C9_Table(in) ==
    LET h == in.holder IN
    <<IF ~in.is_verified THEN 20 ELSE 0,
      IF PctGT(h.dev_wallet_percentage, 50) THEN 60
      ELSE IF PctGT(h.dev_wallet_percentage, 30) THEN 40
      ELSE IF PctGT(h.dev_wallet_percentage, 20) THEN 25 ELSE 0,
      IF PctGT(h.top_10_percentage, 70) THEN 50
      ELSE IF PctGT(h.top_10_percentage, 50) THEN 30
      ELSE IF PctGT(h.top_10_percentage, 40) THEN 15 ELSE 0,
      IF ~h.bundle_detected THEN 0
      ELSE IF PctGT(h.bundle_percentage, 30) THEN 40
      ELSE IF PctGT(h.bundle_percentage, 15) THEN 25 ELSE 10,
      IF in.is_honeypot THEN 50 ELSE 0,
      IF in.rug_indicators THEN 30 ELSE 0>>

\* the category a warning belongs to
C9_Category(w) ==
    CASE w = "Contract not verified" -> 1
      [] w \in {"CRITICAL: Dev holds >50% - Extreme rug risk",
                "HIGH RISK: Dev holds >30% - High rug risk",
                "MEDIUM RISK: Dev holds >20% - Moderate rug risk"} -> 2
      [] w \in {"CRITICAL: Top 10 hold >70% - Extreme concentration",
                "HIGH RISK: Top 10 hold >50% - High concentration",
                "MEDIUM RISK: Top 10 hold >40% - Moderate concentration"} -> 3
      [] w \in {"CRITICAL: Bundle manipulation detected",
                "HIGH RISK: Bundle manipulation detected",
                "Bundle manipulation detected"} -> 4
      [] w = "Potential honeypot detected" -> 5
      [] w = "Rug pull indicators detected" -> 6
      [] OTHER -> 0

\* C9: security_score = max(0, 100 - P), P the sum of the table's penalties,
\* one per category at most; warnings holds one entry per applied penalty,
\* in category order.
C9_ScoreIsTable ==
    (sa_out # Pending /\ IsDict(sa_in.holder)) =>
        LET t == C9_Table(sa_in)
            P == t[1] + t[2] + t[3] + t[4] + t[5] + t[6]
            applied == {c \in 1..6 : t[c] > 0}
            w == sa_out.warnings
        IN  /\ sa_out.security_score = Max(0, 100 - P)
            /\ Len(w) = Cardinality(applied)
            /\ \A k \in 1..Len(w) : C9_Category(w[k]) \in applied
            /\ \A k \in 1..(Len(w) - 1) : C9_Category(w[k]) < C9_Category(w[k + 1])

C9_Witness ==
    /\ sa_out # Pending
    /\ IsDict(sa_in.holder)
    /\ sa_in.is_verified
    /\ sa_in.holder.bundle_detected
    /\ sa_out.security_score = 100 - 25 - 15 - 10
    /\ Len(sa_out.warnings) = 3

\* C10: when one penalty-triggering input gets worse (a higher dev-wallet,
\* top-10 or detected-bundle percentage; bundle_detected, honeypot or rug
\* indicator switched on) and the others stay, the score does not rise.
C10_ScoreMonotone ==
    [][Worsen => sa_out'.security_score <= sa_out.security_score]_vars

C10_Witness ==
    /\ sa_out # Pending
    /\ IsDict(sa_in.holder)
    /\ sa_in.holder.dev_wallet_percentage = Ratio(100, 1)
    /\ sa_in.holder.top_10_percentage = Ratio(100, 1)
    /\ sa_in.holder.bundle_detected
    /\ sa_in.is_verified
    /\ sa_out.security_score = 0

\* the scorer was given what get_security_analysis gives it: the answers of
\* the three static checks
AsGetSecurityAnalysis(in) ==
    /\ in.is_verified = check_contract_verification
    /\ in.is_honeypot = check_honeypot_indicators
    /\ in.rug_indicators = check_rug_pull_indicators

\* no holder signal but the dev wallet: top-10 share <= 40%, no bundle
OnlyDevSignal(in) ==
    /\ IsDict(in.holder)
    /\ ~PctGT(in.holder.top_10_percentage, 40)
    /\ ~in.holder.bundle_detected

\* the score get_security_analysis returned is s when the dev wallet holds p%
DevScore(p, s) ==
    sa_in.holder.dev_wallet_percentage = Ratio(p, 1) => sa_out.security_score = s

\* C11 as stated: with no other holder signal, dev-wallet percentages of 10,
\* 25, 35 and 55 give scores of 100, 75, 60 and 40 from
\* get_security_analysis.
C11_DevScoresAsClaimed ==
    (sa_out # Pending /\ AsGetSecurityAnalysis(sa_in) /\ OnlyDevSignal(sa_in)) =>
        /\ DevScore(10, 100)
        /\ DevScore(25, 75)
        /\ DevScore(35, 60)
        /\ DevScore(55, 40)

\* C11 amended: with no other holder signal, dev-wallet percentages of 10,
\* 25, 35 and 55 give scores of 80, 55, 40 and 20 from get_security_analysis:
\* the penalty of 20 for an unverified contract applies to every token.
C11_DevScores ==
    (sa_out # Pending /\ AsGetSecurityAnalysis(sa_in) /\ OnlyDevSignal(sa_in)) =>
        /\ DevScore(10, 80)
        /\ DevScore(25, 55)
        /\ DevScore(35, 40)
        /\ DevScore(55, 20)
        /\ "Contract not verified" \in {sa_out.warnings[k] : k \in 1..Len(sa_out.warnings)}

C11_Witness ==
    /\ sa_out # Pending
    /\ AsGetSecurityAnalysis(sa_in)
    /\ OnlyDevSignal(sa_in)
    /\ sa_in.holder.dev_wallet_percentage = Ratio(55, 1)
    /\ sa_in.holder.top_10_percentage = Ratio(40, 1)
    /\ sa_out.security_score = 20

\* C12: classify_risk_level gives every integer score exactly one level:
\* 'low' from 85 up, 'medium' from 70 to 84, 'high' from 50 to 69, 'critical'
\* up to 49, negative scores included.
C12_RiskLevelBands ==
    rl_out # "none" =>
        /\ rl_out \in {"low", "medium", "high", "critical"}
        /\ (rl_out = "low") <=> (rl_score >= 85)
        /\ (rl_out = "medium") <=> (rl_score >= 70 /\ rl_score <= 84)
        /\ (rl_out = "high") <=> (rl_score >= 50 /\ rl_score <= 69)
        /\ (rl_out = "critical") <=> (rl_score <= 49)

C12_Witness ==
    /\ rl_score = 0 - 10
    /\ rl_out = "critical"

\* the positions of a provider's list that hold a positive balance
Positive(list) == {k \in 1..Len(list) : list[k].ok /\ list[k].amount > 0}

\* the sum of the balances at the positions K of the list
RECURSIVE SumAt(_, _)
SumAt(list, K) ==
    IF K = {} THEN 0
    ELSE LET k == CHOOSE i \in K : TRUE
         IN  list[k].amount + SumAt(list, K \ {k})

\* the observed supply: the sum of the positive balances
Supply(list) == SumAt(list, Positive(list))

\* a position holding the largest balance
IsLargest(list, k) ==
    k \in Positive(list) /\ \A i \in Positive(list) : list[i].amount <= list[k].amount

\* the request of C13: a Solana token, market data found, the holder fetch
\* answering 12 positive-balance holders of which the largest holds 40% of
\* the observed supply, and the holder fetch that get_security_analysis
\* makes answering 12 positive-balance holders as well
TwelveHoldersTopForty ==
    /\ pc = "done"
    /\ chain = "solana"
    /\ Len(calls) = ScoringCall
    /\ calls[HolderCall].status = "ok"
    /\ Cardinality(Positive(listed)) = 12
    /\ \E k \in Positive(listed) :
           IsLargest(listed, k) /\ 100 * listed[k].amount = 40 * Supply(listed)
    /\ calls[ScoringCall].status = "ok"
    /\ calls[ScoringCall].positive = 12

\* C13 as stated: for such a request analyze_token returns a report with
\* dev_wallet_percentage = 40 and risk_level = 'high'.
C13_TopFortyIsHighAsClaimed ==
    TwelveHoldersTopForty =>
        /\ IsReport(result)
        /\ result.holder_analysis.dev_wallet_percentage = Ratio(40, 1)
        /\ result.security_analysis.risk_level = "high"

\* C13 amended: for such a request analyze_token returns a report with
\* dev_wallet_percentage = 40, security_score = 0 and risk_level =
\* 'critical'.
C13_TopFortyIsCritical ==
    TwelveHoldersTopForty =>
        /\ IsReport(result)
        /\ result.holder_analysis.dev_wallet_percentage = Ratio(40, 1)
        /\ result.holder_analysis.total_holders = 12
        /\ result.security_analysis.security_score = 0
        /\ result.security_analysis.risk_level = "critical"

C13_Witness ==
    /\ TwelveHoldersTopForty
    /\ listed[12].amount = 8
    /\ IsReport(result)
    /\ result.security_analysis.risk_level = "critical"

\* a report for a Solana token
SolanaReport == pc = "done" /\ chain = "solana" /\ IsReport(result)

\* C14: in every report for a Solana token, top_10_holders is the prefix of
\* the positive-balance holders sorted by non-increasing balance: it has
\* min(10, total_holders) entries, each a different positive-balance account
\* of the provider's answer with its balance and share; the balances do not
\* increase along it; no account left out holds more than its last entry; and
\* its first entry is a largest holder, whose share is dev_wallet_percentage.
C14_Top10IsSortedPrefix ==
    SolanaReport =>
        LET ha == result.holder_analysis
            t == ha.top_10_holders
            chosen == {t[k].address : k \in 1..Len(t)}
        IN  /\ ha.total_holders = Cardinality(Positive(listed))
            /\ Len(t) = Min(10, ha.total_holders)
            /\ Cardinality(chosen) = Len(t)
            /\ \A k \in 1..Len(t) :
                   /\ t[k].address \in Positive(listed)
                   /\ t[k].balance = listed[t[k].address].amount
                   /\ t[k].percentage = Ratio(100 * t[k].balance, Supply(listed))
            /\ \A k \in 1..(Len(t) - 1) : t[k].balance >= t[k + 1].balance
            /\ \A i \in Positive(listed) \ chosen : listed[i].amount <= t[Len(t)].balance
            /\ IsLargest(listed, t[1].address)
            /\ ha.dev_wallet_percentage = t[1].percentage

C14_Witness ==
    /\ SolanaReport
    /\ Len(listed) = 12
    /\ listed[12].amount = 10
    /\ result.holder_analysis.total_holders = 12
    /\ Len(result.holder_analysis.top_10_holders) = 10
    /\ result.holder_analysis.top_10_holders[1].address = 12
    /\ result.holder_analysis.top_10_holders[10].balance = 1

\* C15: detect_bundles returns (False, 0) for every list of fewer than 5
\* entries, whatever the balances, three or four equal balances included.
C15_FewHoldersNoBundle ==
    (db_out # Pending /\ Len(db_holders) < 5) =>
        /\ db_out.detected = FALSE
        /\ db_out.percentage = ZeroPct

C15_Witness ==
    /\ db_out # Pending
    /\ Len(db_holders) = 4
    /\ \A k \in 1..4 : db_holders[k].ok /\ db_holders[k].amount = 42
    /\ db_out.detected = FALSE

\* every entry of the list holds the same positive balance
SameBalance(list) ==
    /\ list # <<>>
    /\ \A k \in 1..Len(list) :
           list[k].ok /\ list[k].amount > 0 /\ list[k].amount = list[1].amount

\* C16: for every list of 5 or more entries that all hold the same positive
\* balance, detect_bundles returns (True, 100).
C16_EqualBalancesOneBundle ==
    (db_out # Pending /\ Len(db_holders) >= 5 /\ SameBalance(db_holders)) =>
        /\ db_out.detected = TRUE
        /\ db_out.percentage = Ratio(100, 1)

C16_Witness ==
    /\ db_out # Pending
    /\ Len(db_holders) = 6
    /\ SameBalance(db_holders)
    /\ db_out.detected = TRUE
    /\ db_out.percentage = Ratio(100, 1)

\* every entry of the list carries a number as its amount
AllNumeric(list) == \A k \in 1..Len(list) : list[k].ok

\* the balances of the first five entries, and of all entries
FirstFive(list) == SumAt(list, {k \in 1..Len(list) : k <= 5})
Total(list) == SumAt(list, 1..Len(list))

\* the share of the first five entries in the total is above t percent
ShareAbove(list, t) == 100 * FirstFive(list) > t * Total(list)

\* C17: classify_holder_distribution compares the share of the first five
\* holders in the total observed supply with strict thresholds: above 80
\* 'highly_concentrated', above 50 up to 80 'concentrated', above 20 up to 50
\* 'moderate', up to 20 'distributed' (so exactly 81% is
\* 'highly_concentrated' and exactly 50% is 'moderate'); an empty list or a
\* total supply of zero gives 'unknown'.
C17_DistributionBands ==
    hd_out # "none" =>
        /\ hd_holders = <<>> => hd_out = "unknown"
        /\ (AllNumeric(hd_holders) /\ Total(hd_holders) = 0) => hd_out = "unknown"
        /\ (AllNumeric(hd_holders) /\ Total(hd_holders) > 0) =>
               /\ (hd_out = "highly_concentrated") <=> ShareAbove(hd_holders, 80)
               /\ (hd_out = "concentrated") <=>
                      (ShareAbove(hd_holders, 50) /\ ~ShareAbove(hd_holders, 80))
               /\ (hd_out = "moderate") <=>
                      (ShareAbove(hd_holders, 20) /\ ~ShareAbove(hd_holders, 50))
               /\ (hd_out = "distributed") <=> ~ShareAbove(hd_holders, 20)
               /\ 100 * FirstFive(hd_holders) = 81 * Total(hd_holders)
                      => hd_out = "highly_concentrated"
               /\ 100 * FirstFive(hd_holders) = 50 * Total(hd_holders)
                      => hd_out = "moderate"

C17_Witness ==
    /\ hd_out = "highly_concentrated"
    /\ Len(hd_holders) = 6
    /\ AllNumeric(hd_holders)
    /\ hd_holders[6].amount = 19
    /\ 100 * FirstFive(hd_holders) = 81 * Total(hd_holders)

\* balance b is within 5% of the representative's balance a
Near(a, b) == a > 0 /\ b > 0 /\ 20 * Abs(a - b) < a

\* the holders of the list within 5% of the holder at position i
GroupOf(list, i) == {k \in Positive(list) : Near(list[i].amount, list[k].amount)}

\* the holders that belong to a group of at least 3 around some holder
Grouped(list) ==
    UNION {GroupOf(list, i) : i \in {r \in Positive(list) : Cardinality(GroupOf(list, r)) >= 3}}

\* C18: in every report, on every chain, bundle_detected is true only if
\* the fetched holder list holds a group of at least 3 holders within 5% of
\* the group's representative, and bundle_percentage is the share of holders
\* of such groups in the observed supply (0 when there is none).
C18_BundleMeansGroup ==
    (pc = "done" /\ IsReport(result)) =>
        LET ha == result.holder_analysis IN
        /\ ha.bundle_detected => Grouped(listed) # {}
        /\ \E U \in SUBSET Grouped(listed) :
               ha.bundle_percentage.num * Supply(listed)
                   = 100 * SumAt(listed, U) * ha.bundle_percentage.den

\* the sum of the n largest balances at the positions K of the list
RECURSIVE TopSum(_, _, _)
TopSum(list, K, n) ==
    IF n = 0 \/ K = {} THEN 0
    ELSE LET k == CHOOSE i \in K : \A j \in K : list[j].amount <= list[i].amount
         IN  list[k].amount + TopSum(list, K \ {k}, n - 1)

\* the share of the n largest holders of the list in the observed supply
LargestShare(list, n) == Ratio(100 * TopSum(list, Positive(list), n), Supply(list))

\* C19: in every report that counts holders, on every chain,
\* dev_wallet_percentage is the share of the largest holder and
\* top_10_percentage / top_50_percentage are the shares of the 10 / 50 largest
\* holders of the observed supply, in whatever order the provider lists them.
C19_SharesOfLargestHolders ==
    (pc = "done" /\ IsReport(result) /\ result.holder_analysis.total_holders > 0) =>
        LET ha == result.holder_analysis IN
        /\ ha.dev_wallet_percentage = LargestShare(listed, 1)
        /\ ha.top_10_percentage = LargestShare(listed, 10)
        /\ ha.top_50_percentage = LargestShare(listed, 50)

\* the call failed (exception, status other than 200, unreadable body, no
\* result) or returned an empty list
FailedOrEmpty(call) == call.status # "ok" \/ call.count = 0

\* C20: within a request no source is queried again after a call to it has
\* failed or returned empty, and a report returned after a failed holder
\* fetch reflects that failure in every part: its security section is the
\* one of a token without holder data (only the unverified penalty).
C20_FailedCallIsFinal ==
    /\ \A i \in 1..Len(calls) : \A j \in (i + 1)..Len(calls) :
           calls[i].source = calls[j].source => ~FailedOrEmpty(calls[i])
    /\ (pc = "done" /\ IsReport(result) /\ FailedOrEmpty(calls[HolderCall])) =>
           /\ result.security_analysis.security_score = 80
           /\ result.security_analysis.warnings = <<"Contract not verified">>

\* the level the thresholds assign to a score
LevelOf(score) ==
    IF score >= 85 THEN "low"
    ELSE IF score >= 70 THEN "medium"
    ELSE IF score >= 50 THEN "high"
    ELSE "critical"

\* the scorer's input that a report's holder section stands for
OwnHolders(report) ==
    [holder |-> report.holder_analysis,
     is_verified |-> check_contract_verification,
     is_honeypot |-> check_honeypot_indicators,
     rug_indicators |-> check_rug_pull_indicators]

\* C23: in every report the security section is the score of the holder
\* section of the same report: security_score, warnings and risk_level are
\* what the penalty table yields for its dev_wallet_percentage,
\* top_10_percentage, bundle_detected and bundle_percentage.
C23_SecurityScoresOwnHolders ==
    (pc = "done" /\ IsReport(result)) =>
        LET t == C9_Table(OwnHolders(result))
            P == t[1] + t[2] + t[3] + t[4] + t[5] + t[6]
            applied == {c \in 1..6 : t[c] > 0}
            sa == result.security_analysis
        IN  /\ sa.security_score = Max(0, 100 - P)
            /\ Len(sa.warnings) = Cardinality(applied)
            /\ \A k \in 1..Len(sa.warnings) : C9_Category(sa.warnings[k]) \in applied
            /\ sa.risk_level = LevelOf(100 - P)

\* the unassigned holders behind position i within 5% of the balance at i
NearBehind(list, i, assigned) ==
    {j \in (i + 1)..Len(list) : j \notin assigned /\ Near(list[i].amount, list[j].amount)}

\* The holders assigned to groups when a holder is marked assigned only as
\* its group is recorded: the representatives are taken in list order, and a
\* group of fewer than 3 members leaves its members unassigned.
RECURSIVE AssignedWhenRecorded(_, _, _)
AssignedWhenRecorded(list, i, assigned) ==
    IF i > Len(list) THEN assigned
    ELSE IF i \in assigned THEN AssignedWhenRecorded(list, i + 1, assigned)
    ELSE LET group == {i} \cup NearBehind(list, i, assigned)
         IN  IF Cardinality(group) >= 3
             THEN AssignedWhenRecorded(list, i + 1, assigned \cup group)
             ELSE AssignedWhenRecorded(list, i + 1, assigned)

\* every entry of the list holds a positive balance
AllPositive(list) == \A k \in 1..Len(list) : list[k].ok /\ list[k].amount > 0

\* C24: detect_bundles marks a holder assigned only when the group it was
\* collected into reaches 3 members and is recorded; a holder collected into
\* a group of fewer than 3 stays unassigned and can start or join a later
\* group.  So for a list of 5 or more positive balances the result is that
\* of the groups formed this way: detected when there is one, with the share
\* of their members in the total.
C24_AssignedOnlyWhenRecorded ==
    (db_out # Pending /\ Len(db_holders) >= 5 /\ AllPositive(db_holders)) =>
        LET members == AssignedWhenRecorded(db_holders, 1, {})
        IN  /\ db_out.detected = (members # {})
            /\ db_out.percentage =
                   Ratio(100 * SumAt(db_holders, members), Total(db_holders))

\* C25: in every report the market fields and the promotion/link fields
\* come from the same upstream payload: dex equals dex_pricing.dex_id,
\* pair_created_at equals dex_pricing.pair_created_at and liquidity equals
\* dex_pricing.liquidity_usd.
C25_MarketFieldsAgree ==
    (pc = "done" /\ IsReport(result)) =>
        /\ result.dex = result.dex_pricing.dex_id
        /\ result.pair_created_at = result.dex_pricing.pair_created_at
        /\ result.liquidity = result.dex_pricing.liquidity_usd

\* C26: in every SecurityAnalysis that get_security_analysis returns, the
\* one returned when scoring raised included, risk_level is the level the
\* thresholds (>= 85 low, >= 70 medium, >= 50 high, else critical) assign to
\* the security_score of the same object.
C26_RiskLevelMatchesScore ==
    sa_out # Pending => sa_out.risk_level = LevelOf(sa_out.security_score)

\* a report for an ethereum or bsc token whose holder section is the default
\* one
DegradedEvmReport ==
    /\ pc = "done"
    /\ IsReport(result)
    /\ chain \in {"ethereum", "bsc"}
    /\ result.holder_analysis = get_default_holder_analysis

\* C27: with the verification, honeypot and rug-pull checks answering false,
\* every report has security_score <= 80, 'Contract not verified' as the
\* first warning and a risk_level other than 'low'; a degraded ethereum/bsc
\* report with default holders has score exactly 80 and risk_level 'medium'.
C27_UnverifiedCapsScore ==
    /\ (pc = "done" /\ IsReport(result)) =>
           /\ result.security_analysis.security_score <= 80
           /\ result.security_analysis.warnings # <<>>
           /\ result.security_analysis.warnings[1] = "Contract not verified"
           /\ result.security_analysis.risk_level # "low"
    /\ DegradedEvmReport =>
           /\ result.security_analysis.security_score = 80
           /\ result.security_analysis.risk_level = "medium"

\* C22: once Database(db_path) has been constructed, the users, token_scans,
\* user_preferences and watchlist tables exist for every later operation on
\* the object, whatever db_path is, ':memory:' included: the connection a
\* method opens finds them, and no method fails on a missing table.
C22_TablesExistForLaterCalls ==
    db_path # "none" =>
        /\ TableNames \subseteq Connect(db_path, disk).tables
        /\ returned # Exc

\* C29: after any sequence and any interleaving of add_to_watchlist and
\* remove_from_watchlist calls, two callers adding the same entry at the same
\* time included, the watchlist table holds at most one row per
\* (user_id, token_address, chain).
C29_OneRowPerEntry ==
    \A u \in UserIds, t \in WatchTokens, ch \in WatchChains :
        Cardinality(RowsEqual(disk.watchlist, WatchRow(u, t, ch))) <= 1

\* what get_user_preferences(u) returns on the stored database
StoredPreferences(stored, u) == get_user_preferences(stored, u).value

\* C30: on a database file, for every user id u and every preferences dict
\* p, after update_user_preferences(u, p) the next get_user_preferences(u)
\* returns the values given in p, and every field p does not name keeps the
\* value it had before, whether or not u was registered through add_user;
\* and add_user(u) leaves the stored preferences of u unchanged.
C30_UpdateKeepsUnnamedFields ==
    [][/\ \A u \in UserIds, p \in PreferenceDicts :
              (db_path = "bot_data.db" /\ UpdateUserPreferences(u, p)) =>
                  LET before == StoredPreferences(disk, u)
                      after == StoredPreferences(disk', u)
                  IN  /\ after.default_chain =
                             DictGet(p.default_chain, before.default_chain)
                      /\ after.notifications_enabled =
                             DictGet(p.notifications_enabled, before.notifications_enabled)
                      /\ after.risk_threshold =
                             DictGet(p.risk_threshold, before.risk_threshold)
       /\ \A u \in UserIds :
              (db_path = "bot_data.db" /\ AddUser /\ u \in DOMAIN disk.user_preferences) =>
                  disk'.user_preferences[u] = disk.user_preferences[u]]_vars

\* the report text among the replies
IsReportText(m) == m.kind = "text" /\ m.body.text = "report"

\* what scan_token has sent when it has returned: exactly one message, the
\* report text when there is a report to send
OneReplyAtEnd ==
    scan_pc = "end" =>
        /\ Len(replies) = 1
        /\ replies[1].kind = "text"
        /\ (token_analysis # Pending /\ Truthy(token_analysis)
             /\ format_deep_analysis(token_analysis) # Exc)
              => replies = <<ReplyText(format_deep_analysis(token_analysis))>>

Content(v) ==
    IF IsReport(v) THEN [f \in DOMAIN v \ {"analysis_timestamp"} |-> v[f]] ELSE v

\* the answers a call received, in the order of its four upstream calls;
\* a call that returned early made the later calls not at all
Received(r) ==
    [k \in 1..4 |->
        IF k <= Len(runs[r].received) THEN runs[r].received[k]
        ELSE IF k <= 2 THEN [status |-> "non200", pairs |-> <<>>]
        ELSE [status |-> "exc", list |-> <<>>]]

RunDone(r) == runs[r].pc = "done"

SameInputs(a, b) ==
    /\ runs[a].token_address = runs[b].token_address
    /\ runs[a].chain = runs[b].chain
    /\ runs[a].received = runs[b].received

\* C21: what analyze_token returns is a function of its arguments and of
\* the upstream answers it received, the analysis_timestamp apart: a call
\* returns what the same call made alone returns on these answers, and two
\* calls with the same address and chain that received the same answers
\* return the same content, however the calls on the analyzer interleave.
C21_ResultDependsOnOwnInputs ==
    /\ \A r \in RunIds :
          RunDone(r) =>
              Content(runs[r].result) =
                  Content(analyze_token(runs[r].token_address, runs[r].chain, Received(r), 0))
    /\ \A a, b \in RunIds :
          (RunDone(a) /\ RunDone(b) /\ SameInputs(a, b)) =>
              Content(runs[a].result) = Content(runs[b].result)

\* two interleaved calls with the same arguments received the same answers
\* and returned reports stamped at different times
C21_Witness ==
    /\ RunDone(1) /\ RunDone(2)
    /\ SameInputs(1, 2)
    /\ runs[1].overlapped /\ runs[2].overlapped
    /\ IsReport(runs[1].result) /\ IsReport(runs[2].result)
    /\ runs[1].result.analysis_timestamp # runs[2].result.analysis_timestamp

====
